---------------------------- MODULE Spec2Model ----------------------------
(***************************************************************************)
(* A model of the heading-estimation engine of true-compass:              *)
(* src/hooks/use-compass.ts (the useCompass hook, its effect, the sensor  *)
(* listeners and the per-sample pipeline), and of the application that    *)
(* hosts it, src/app/index.tsx (CompassScreen, the guided setup of        *)
(* SetupScreen and the properties it hands to Compass).                   *)
(*                                                                         *)
(* Numbers.  JavaScript numbers are modelled in fixed point:              *)
(*   - angles are integers in ticks of 1/2 degree (TicksPerDeg), so that  *)
(*     Math.round (round half up) of an angle is decided by the model;    *)
(*   - magnitudes (micro-tesla) and scores (0..100) are integers in       *)
(*     hundredths (Centi);                                                *)
(*   - the conditioned accelerometer vector is a unit vector in           *)
(*     hundredths (Centi);                                                *)
(*   - sines and cosines are integers scaled by TrigScale.                *)
(* NaN is the integer NaN, null and undefined are the integer Null; both  *)
(* lie outside every value the model computes.  An operation on NaN       *)
(* gives NaN and a comparison with NaN is false, as in IEEE-754.          *)
(*                                                                         *)
(* Below the resolution.  One effect of double precision that the fixed   *)
(* point cannot hold is modelled by four more integers outside every      *)
(* computed value.  MinusEps is a magnetometer x component of -1e-16      *)
(* times the y component, and MinusEps and PlusEps are what the products  *)
(* and quotients of the resolver make of it on a level device (where the  *)
(* conditioned accelerometer vector is (0, 0, 1)).  For y > 0,            *)
(* Math.atan2(y, MinusEps) is the double next above pi/2 and its degrees  *)
(* the double next above 90 (JustOverQuarter); 90 minus that is -1.4e-14  *)
(* (JustUnderZero); and -1.4e-14 + 360 is 360.0 exactly, because the      *)
(* doubles next to 360 are 5.7e-14 apart.                                 *)
(***************************************************************************)
EXTENDS Integers, Naturals, Sequences, FiniteSets, TLC

NaN == -999999999
MinusEps == -777777777
PlusEps == 777777777
JustOverQuarter == 777777701
JustUnderZero == -777777702
Null == -888888888

TicksPerDeg == 2
Centi == 100
TrigScale == 100000

IsNaN(v) == v = NaN

\* The value of a number up to the resolution of the model, and the sign of
\* what lies below it.
IsEps(v) == v = MinusEps \/ v = PlusEps
Finite(v) == IF IsEps(v) THEN 0 ELSE v
EpsSign(v) == IF v = PlusEps THEN 1 ELSE IF v = MinusEps THEN -1 ELSE 0
IsNum(v) == v # NaN /\ v # Null

Abs(v) == IF v < 0 THEN -v ELSE v
Sign(v) == IF v > 0 THEN 1 ELSE IF v < 0 THEN -1 ELSE 0

\* The sign of the part of a * b below the resolution.
EpsOfProduct(a, b) == EpsSign(a) * Sign(Finite(b)) + Sign(Finite(a)) * EpsSign(b)
Max2(a, b) == IF a >= b THEN a ELSE b
Min2(a, b) == IF a <= b THEN a ELSE b

\* a / b for b > 0, rounded to the nearest integer (halves away from zero):
\* the fixed-point image of a real division.
RDiv(a, b) == IF a >= 0 THEN (2 * a + b) \div (2 * b)
                        ELSE -((2 * (-a) + b) \div (2 * b))

\* JavaScript's % : the remainder has the sign of the dividend.
JsRem(a, n) == IF a >= 0 THEN a % n ELSE -((-a) % n)

\* Math.sqrt on a non-negative integer, rounded down.
RECURSIVE SqrtSearch(_, _, _)
SqrtSearch(n, lo, hi) ==
    IF lo >= hi THEN lo
    ELSE LET mid == (lo + hi + 1) \div 2
         IN  IF mid * mid <= n THEN SqrtSearch(n, mid, hi)
                               ELSE SqrtSearch(n, lo, mid - 1)

Sqrt(n) == SqrtSearch(n, 0, Min2(n, 46340))

\* sin of k half-degrees, k = 0..180 (0..90 degrees), times TrigScale.
SinTab ==
  << 0, 873, 1745, 2618, 3490, 4362, 5234, 6105, 6976, 7846,
     8716, 9585, 10453, 11320, 12187, 13053, 13917, 14781, 15643, 16505,
     17365, 18224, 19081, 19937, 20791, 21644, 22495, 23345, 24192, 25038,
     25882, 26724, 27564, 28402, 29237, 30071, 30902, 31730, 32557, 33381,
     34202, 35021, 35837, 36650, 37461, 38268, 39073, 39875, 40674, 41469,
     42262, 43051, 43837, 44620, 45399, 46175, 46947, 47716, 48481, 49242,
     50000, 50754, 51504, 52250, 52992, 53730, 54464, 55194, 55919, 56641,
     57358, 58070, 58779, 59482, 60182, 60876, 61566, 62251, 62932, 63608,
     64279, 64945, 65606, 66262, 66913, 67559, 68200, 68835, 69466, 70091,
     70711, 71325, 71934, 72537, 73135, 73728, 74314, 74896, 75471, 76041,
     76604, 77162, 77715, 78261, 78801, 79335, 79864, 80386, 80902, 81412,
     81915, 82413, 82904, 83389, 83867, 84339, 84805, 85264, 85717, 86163,
     86603, 87036, 87462, 87882, 88295, 88701, 89101, 89493, 89879, 90259,
     90631, 90996, 91355, 91706, 92050, 92388, 92718, 93042, 93358, 93667,
     93969, 94264, 94552, 94832, 95106, 95372, 95630, 95882, 96126, 96363,
     96593, 96815, 97030, 97237, 97437, 97630, 97815, 97992, 98163, 98325,
     98481, 98629, 98769, 98902, 99027, 99144, 99255, 99357, 99452, 99540,
     99619, 99692, 99756, 99813, 99863, 99905, 99939, 99966, 99985, 99996,
     100000 >>

HalfTurn == 180 * TicksPerDeg
FullTurn == 360 * TicksPerDeg
QuarterTurn == 90 * TicksPerDeg

\* Math.sin / Math.cos of an angle given in ticks, times TrigScale.
Sin(a) ==
    LET t == a % FullTurn
        k == IF t <= QuarterTurn THEN t
             ELSE IF t <= HalfTurn THEN HalfTurn - t
             ELSE IF t <= HalfTurn + QuarterTurn THEN t - HalfTurn
             ELSE FullTurn - t
    IN  (IF t <= HalfTurn THEN 1 ELSE -1) * SinTab[k + 1]

Cos(a) == Sin(a + QuarterTurn)

\* The largest tick t in lo..hi with tan(t) <= y/x, for x, y >= 0.
RECURSIVE AtanSearch(_, _, _, _)
AtanSearch(y, x, lo, hi) ==
    IF lo >= hi THEN lo
    ELSE LET mid == (lo + hi + 1) \div 2
         IN  IF Sin(mid) * x <= Cos(mid) * y THEN AtanSearch(y, x, mid, hi)
                                             ELSE AtanSearch(y, x, lo, mid - 1)

\* Of the ticks t and t + 1, the one nearer to the direction of (x, y).
AtanNearer(y, x, t) ==
    IF t < QuarterTurn /\ x * Cos(t + 1) + y * Sin(t + 1) > x * Cos(t) + y * Sin(t)
    THEN t + 1 ELSE t

\* The tick in 0..QuarterTurn nearest to the direction of (x, y), x, y >= 0,
\* max(x, y) <= 10000.
AtanScaled(y, x) == AtanNearer(y, x, AtanSearch(y, x, 0, QuarterTurn))

\* The same for any x, y >= 0: the vector is scaled down first.
AtanQuadrant(y, x) ==
    AtanScaled(y \div ((Max2(x, y) \div 10000) + 1), x \div ((Max2(x, y) \div 10000) + 1))

\* The angle of (x, y) from its angle t in the first quadrant.
AtanUnfold(y, x, t) ==
    IF x >= 0 /\ y >= 0 THEN t
    ELSE IF x < 0 /\ y >= 0 THEN HalfTurn - t
    ELSE IF x >= 0 THEN -t
    ELSE IF t = 0 THEN HalfTurn ELSE t - HalfTurn

\* Math.atan2(y, x) in ticks, in (-HalfTurn, HalfTurn]; NaN if either is NaN.
Atan2(y, x) ==
    IF IsNaN(y) \/ IsNaN(x) THEN NaN
    ELSE IF x = MinusEps /\ y > 0 THEN JustOverQuarter
    ELSE IF Finite(x) = 0 /\ y = 0 THEN 0
    ELSE AtanUnfold(y, Finite(x), AtanQuadrant(Abs(y), Abs(Finite(x))))

\* 90 - angle (lines 85, 259, 269), NaN staying NaN.
FromNorth(a) ==
    IF IsNaN(a) THEN NaN
    ELSE IF a = JustOverQuarter THEN JustUnderZero
    ELSE QuarterTurn - a

\* Math.hypot of integers, rounded down; NaN if any is NaN.
Hypot3(a, b, c) ==
    IF IsNaN(a) \/ IsNaN(b) \/ IsNaN(c) THEN NaN
    ELSE Sqrt(Finite(a) * Finite(a) + Finite(b) * Finite(b) + Finite(c) * Finite(c))


(***************************************************************************)
(* Program constants of use-compass.ts.                                    *)
(***************************************************************************)
SmoothingSize == 8
MagHistorySize == 60
DefaultUpdateMs == 100
AccelAlphaPct == 15
MagAlphaPct == 10
AccAlphaPct == 25
LevelTiltDeg == 7

\* Math.round of an angle in ticks, in degrees: floor(x + 0.5).
RoundDeg(t) == IF IsNaN(t) THEN NaN ELSE (2 * t + TicksPerDeg) \div (2 * TicksPerDeg)

\* Math.round of a value in hundredths: floor(x + 0.5).
RoundCenti(v) == IF IsNaN(v) THEN NaN ELSE (2 * v + Centi) \div (2 * Centi)

\* (value % 360, then + 360 if negative), lines 88-89 and 275-276.
Normalize360(h) ==
    IF IsNaN(h) THEN NaN
    ELSE IF h = JustUnderZero THEN FullTurn
    ELSE LET r == JsRem(h, FullTurn) IN IF r < 0 THEN r + FullTurn ELSE r

\* a*b - c*d with NaN operands giving NaN.
CrossTerm(a, b, c, d) ==
    IF IsNaN(a) \/ IsNaN(b) \/ IsNaN(c) \/ IsNaN(d) THEN NaN
    ELSE LET value == Finite(a) * Finite(b) - Finite(c) * Finite(d)
             below == EpsOfProduct(a, b) - EpsOfProduct(c, d)
         IN  IF value # 0 THEN value
             ELSE IF below > 0 THEN PlusEps
             ELSE IF below < 0 THEN MinusEps
             ELSE 0

\* The product of two values scaled by TrigScale, scaled by TrigScale.
TrigMul(a, b) == RDiv(a * RDiv(b, 100), TrigScale \div 100)

RECURSIVE SumSeq(_)
SumSeq(q) == IF q = <<>> THEN 0 ELSE Head(q) + SumSeq(Tail(q))

HasNaN(q) == \E k \in 1..Len(q) : IsNaN(q[k])

(***************************************************************************)
(* SmoothingFilter (lines 42-80).                                          *)
(***************************************************************************)
\* lines 51-54 without the shift: push only.
PushUnbounded(q, v, size) ==
    Append(q, v)

\* lines 51-54: push, then shift when longer than maxSize.
PushBounded(q, v, size) ==
    LET p == Append(q, v) IN IF Len(p) > size THEN Tail(p) ELSE p

\* line 72: if (result < 0) result += 360.
WrapNegative(result) ==
    IF IsNaN(result) THEN NaN
    ELSE IF result < 0 THEN result + FullTurn ELSE result

\* A window of headings 0 and 360.0 with at least one 360.0: sin(360 * PI /
\* 180) is -2.4e-16, so sinSum is negative, avgAngle in degrees lies in
\* [-1.4e-14, 0) and line 72 adds 360 to it, which gives 360.0.
MeanIsFullTurn(values) ==
    /\ \A k \in 1..Len(values) : values[k] \in {0, FullTurn}
    /\ \E k \in 1..Len(values) : values[k] = FullTurn

\* lines 56-74: the circular mean of the window.
CircularMean(values) ==
    IF HasNaN(values) THEN NaN
    ELSE IF MeanIsFullTurn(values) THEN FullTurn
    ELSE LET sinSum == SumSeq([k \in 1..Len(values) |-> Sin(values[k])])
             cosSum == SumSeq([k \in 1..Len(values) |-> Cos(values[k])])
         IN  WrapNegative(Atan2(RDiv(sinSum, Len(values)), RDiv(cosSum, Len(values))))

(***************************************************************************)
(* calculateHeading (lines 82-92): the flat-device formula.                *)
(***************************************************************************)
calculateHeading(x, y, z) == Normalize360(FromNorth(Atan2(y, x)))

(***************************************************************************)
(* getCardinalDirection (lines 30-39, 94-109).                              *)
(***************************************************************************)
CARDINAL_DIRECTIONS ==
    << [name |-> "North",     abbr |-> "N",  min |-> 675, max |-> 45],
       [name |-> "Northeast", abbr |-> "NE", min |-> 45,  max |-> 135],
       [name |-> "East",      abbr |-> "E",  min |-> 135, max |-> 225],
       [name |-> "Southeast", abbr |-> "SE", min |-> 225, max |-> 315],
       [name |-> "South",     abbr |-> "S",  min |-> 315, max |-> 405],
       [name |-> "Southwest", abbr |-> "SW", min |-> 405, max |-> 495],
       [name |-> "West",      abbr |-> "W",  min |-> 495, max |-> 585],
       [name |-> "Northwest", abbr |-> "NW", min |-> 585, max |-> 675] >>

\* The test of one entry with North's boundaries excluded.
DirectionMatchesStrict(d, heading) ==
    /\ ~IsNaN(heading)
    /\ IF d.name = "North" THEN heading > d.min \/ heading < d.max
                           ELSE heading >= d.min /\ heading < d.max

\* The test of one entry of the table (lines 96-105); min and max are in ticks
\* (22.5 degrees is 45 ticks).
DirectionMatches(d, heading) ==
    /\ ~IsNaN(heading)
    /\ IF d.name = "North" THEN heading >= d.min \/ heading <= d.max
                           ELSE heading >= d.min /\ heading < d.max

getCardinalDirection(heading) ==
    LET hits == {k \in 1..Len(CARDINAL_DIRECTIONS) :
                    DirectionMatches(CARDINAL_DIRECTIONS[k], heading)}
    IN  IF hits = {} THEN [name |-> "North", abbr |-> "N"]
        ELSE LET k == CHOOSE m \in hits : \A n \in hits : m <= n
             IN  [name |-> CARDINAL_DIRECTIONS[k].name,
                  abbr |-> CARDINAL_DIRECTIONS[k].abbr]

(***************************************************************************)
(* The engine state of one hook instance: the useRef cells of lines        *)
(* 141-155.  A vector is a triple, a null vector the empty tuple.          *)
(***************************************************************************)
InitialRefs ==
    [ smoothingFilter      |-> <<>>,
      magSubscriptionRef   |-> 0,
      accelSubscriptionRef |-> 0,
      latestAccelRef       |-> <<>>,
      accelLPRef           |-> <<>>,
      magHistoryRef        |-> <<>>,
      emaMagRef            |-> Null,
      displayAccRef        |-> 0,
      rotationAccumRef     |-> 0,
      prevHeadingRef       |-> Null ]

(***************************************************************************)
(* The accelerometer listener (lines 220-234): low-pass filter, then unit  *)
(* normalisation.  a is the raw sample in hundredths of g.                 *)
(***************************************************************************)
AccelCondition(refs, a) ==
    LET prev == IF refs.accelLPRef = <<>> THEN a ELSE refs.accelLPRef
        ax == RDiv(AccelAlphaPct * a[1] + (100 - AccelAlphaPct) * prev[1], 100)
        ay == RDiv(AccelAlphaPct * a[2] + (100 - AccelAlphaPct) * prev[2], 100)
        az == RDiv(AccelAlphaPct * a[3] + (100 - AccelAlphaPct) * prev[3], 100)
        \* Math.hypot(ax, ay, az) || 1, in thousandths.
        h == Sqrt((ax * ax + ay * ay + az * az) * 100)
        norm == IF h = 0 THEN 10 * Centi ELSE h
        lp == << RDiv(ax * 10 * Centi, norm), RDiv(ay * 10 * Centi, norm),
                 RDiv(az * 10 * Centi, norm) >>
    IN  [refs EXCEPT !.accelLPRef = lp, !.latestAccelRef = lp]

(***************************************************************************)
(* The heading resolver of the magnetometer listener (lines 242-278).      *)
(***************************************************************************)
\* Math.hypot(Ex, Ey, Ez) || 1 (line 251), in hundredths.
ENorm(h) == IF IsNaN(h) \/ h = 0 THEN Centi ELSE h

\* Ex / eNorm (lines 252-254), in thousandths.
UnitComponent(c, eNorm) ==
    IF IsNaN(c) THEN NaN
    ELSE IF IsEps(c) THEN c
    ELSE RDiv(c * 10 * Centi, eNorm)

\* lines 255-259: the North vector N = A x e and its heading.
NorthHeading(accel, ex, ey, ez) ==
    FromNorth(Atan2(CrossTerm(accel[3], ex, accel[1], ez),
                    CrossTerm(accel[2], ez, accel[3], ey)))

\* lines 251-254: the East vector normalised.
EastNormalised(accel, Ex, Ey, Ez, eNorm) ==
    NorthHeading(accel, UnitComponent(Ex, eNorm), UnitComponent(Ey, eNorm),
                 UnitComponent(Ez, eNorm))

EastVector(accel, Ex, Ey, Ez) ==
    EastNormalised(accel, Ex, Ey, Ez, ENorm(Hypot3(Ex, Ey, Ez)))

\* lines 246-259: cross-product fusion, E = M x A, N = A x E.
CrossProductHeading(x, y, z, accel) ==
    EastVector(accel,
               CrossTerm(y, accel[3], z, accel[2]),
               CrossTerm(z, accel[1], x, accel[3]),
               CrossTerm(x, accel[2], y, accel[1]))

\* lines 320-321 (and 262-263): roll and pitch of the conditioned vector.
Roll(accel) == Atan2(accel[2], accel[3])
Pitch(accel) == Atan2(-accel[1], Sqrt(accel[2] * accel[2] + accel[3] * accel[3]))

\* line 264: Xh, whose value up to the resolution is Xh; with pitch 0 it is x.
HorizontalX(x, z, Xh, pitch) ==
    IF IsEps(x) /\ Xh = 0 /\ pitch = 0 THEN x ELSE Xh

\* lines 264-269: the magnetometer reading in the horizontal plane.
HorizontalHeading(x, y, z, roll, pitch) ==
    IF IsNaN(x) \/ IsNaN(y) \/ IsNaN(z) THEN NaN
    ELSE FromNorth(Atan2(Finite(x) * TrigMul(Sin(roll), Sin(pitch)) + y * Cos(roll)
                            - z * TrigMul(Sin(roll), Cos(pitch)),
                         HorizontalX(x, z, Finite(x) * Cos(pitch) + z * Sin(pitch),
                                     pitch)))

\* lines 261-269: legacy tilt compensation via roll and pitch.
LegacyHeading(x, y, z, accel) ==
    HorizontalHeading(x, y, z, Roll(accel), Pitch(accel))

\* line 278: the optional axis correction.
AxisFlip(rawHeading, axisFlipEW) ==
    IF axisFlipEW
    THEN IF IsNaN(rawHeading) THEN NaN ELSE JsRem(FullTurn - rawHeading, FullTurn)
    ELSE rawHeading

\* lines 242-278: the raw heading handed to the smoother.
RawHeading(x, y, z, accel, useCross, axisFlipEW) ==
    AxisFlip(Normalize360(IF accel # <<>>
                          THEN IF useCross THEN CrossProductHeading(x, y, z, accel)
                                           ELSE LegacyHeading(x, y, z, accel)
                          ELSE calculateHeading(x, y, z)),
             axisFlipEW)

(***************************************************************************)
(* The accuracy scorer (lines 282-342).                                    *)
(***************************************************************************)
\* line 283: the magnitude of the sample, in hundredths.
Magnitude(x, y, z) ==
    IF IsNaN(x) \/ IsNaN(y) \/ IsNaN(z) THEN NaN
    ELSE Sqrt((Finite(x) * Finite(x) + y * y + z * z) * Centi * Centi)

\* The sample alone, without the previous value.
EmaNoMemory(pct, sample, previous) ==
    sample

\* alpha * sample + (1 - alpha) * previous, alpha in percent.
Ema(pct, sample, previous) ==
    IF IsNaN(sample) \/ IsNaN(previous) THEN NaN
    ELSE RDiv(pct * sample + (100 - pct) * previous, 100)

\* lines 286-289.
NextEmaMag(emaMag, magnitude) ==
    IF emaMag = Null THEN magnitude ELSE Ema(MagAlphaPct, magnitude, emaMag)

\* lines 293-301: the sample standard deviation of the history.
StdDev(hist) ==
    IF HasNaN(hist) THEN IF Len(hist) > 1 THEN NaN ELSE 0
    ELSE LET mean == RDiv(SumSeq(hist), Max2(Len(hist), 1))
             sq == [k \in 1..Len(hist) |-> (hist[k] - mean) * (hist[k] - mean)]
             variance == IF Len(hist) > 1 THEN RDiv(SumSeq(sq), Len(hist) - 1) ELSE 0
         IN  Sqrt(variance)

\* lines 303-309: field strength proximity to [30,60]; m and the score in
\* hundredths.  Every comparison with NaN is false, which leads to line 309.
FieldScore(m) ==
    IF IsNaN(m) THEN NaN
    ELSE IF m <= 15 * Centi \/ m >= 90 * Centi THEN 0
    ELSE IF m < 30 * Centi THEN RDiv(100 * (m - 15 * Centi), 15)
    ELSE IF m <= 60 * Centi THEN 100 * Centi
    ELSE Max2(0, 100 * Centi - RDiv((m - 60 * Centi) * 100, 30))

\* line 311 without Math.max and Math.min: 100 - stddev * 50.
VarianceScoreUnclamped(stddev) ==
    IF IsNaN(stddev) THEN NaN
    ELSE 100 * Centi - stddev * 50

\* line 311.
VarianceScore(stddev) ==
    IF IsNaN(stddev) THEN NaN
    ELSE Max2(0, 100 * Centi - Min2(100 * Centi, stddev * 50))

\* lines 322-325: the tilt from flat and isLevel, from roll and pitch in ticks.
TiltRecord(rollDeg, pitchDeg) ==
    LET tiltDeg == Min2(QuarterTurn, Sqrt(rollDeg * rollDeg + pitchDeg * pitchDeg))
    IN  [rollDeg |-> rollDeg, pitchDeg |-> pitchDeg, tiltDeg |-> tiltDeg,
         isLevel |-> IF tiltDeg < LevelTiltDeg * TicksPerDeg THEN "true" ELSE "false"]

\* lines 314-326: roll, pitch, tilt and isLevel; all undefined without accel.
TiltMetrics(accel) ==
    IF accel = <<>>
    THEN [rollDeg |-> Null, pitchDeg |-> Null, tiltDeg |-> Null, isLevel |-> "undefined"]
    ELSE TiltRecord(Roll(accel), Pitch(accel))

\* lines 329-333; the score in hundredths, the tilt in ticks.
TiltScore(tiltDeg) ==
    IF tiltDeg = Null THEN 100 * Centi
    ELSE LET over == Max2(0, tiltDeg - 15 * TicksPerDeg)
         IN  Max2(0, 100 * Centi - RDiv(over * 3 * Centi, TicksPerDeg))

\* lines 336-337.
CombinedScore(fieldScore, varianceScore, tiltScore) ==
    IF IsNaN(fieldScore) \/ IsNaN(varianceScore) THEN NaN
    ELSE RDiv(5 * fieldScore + 3 * varianceScore + 2 * tiltScore, 10)

(***************************************************************************)
(* The step limiter and the rotation accumulator (lines 344-369).          *)
(***************************************************************************)
\* ((a - b + 540) % 360) - 180: the shortest signed delta, lines 348 and 364.
ShortestDelta(a, b) ==
    IF IsNaN(a) \/ IsNaN(b) THEN NaN
    ELSE JsRem(a - b + 540 * TicksPerDeg, FullTurn) - HalfTurn

\* lines 349-355 without the else-if of lines 353-355: no cap of 15 degrees.
MaxStepNoTiltCap(accuracy, tilt) ==
    LET base == IF ~IsNaN(accuracy) /\ accuracy < 50 * Centi
                THEN 20 * TicksPerDeg ELSE 45 * TicksPerDeg
    IN  IF tilt.isLevel = "true" THEN Min2(base, 10 * TicksPerDeg) ELSE base

\* lines 349-355; accuracy in hundredths, the result in ticks.
MaxStep(accuracy, tilt) ==
    LET base == IF ~IsNaN(accuracy) /\ accuracy < 50 * Centi
                THEN 20 * TicksPerDeg ELSE 45 * TicksPerDeg
    IN  IF tilt.isLevel = "true" THEN Min2(base, 10 * TicksPerDeg)
        ELSE IF tilt.tiltDeg # Null /\ tilt.tiltDeg < 25 * TicksPerDeg
             THEN Min2(base, 15 * TicksPerDeg)
        ELSE base

\* lines 345-361 without the limiter: the smoothed heading as it is.
StepLimitOff(smoothedHeading, prev, maxStep) ==
    smoothedHeading

\* lines 345-361.
StepLimit(smoothedHeading, prev, maxStep) ==
    IF prev = Null THEN smoothedHeading
    ELSE LET delta == ShortestDelta(smoothedHeading, prev)
         IN  IF ~IsNaN(delta) /\ Abs(delta) > maxStep
             THEN JsRem(JsRem(prev + Sign(delta) * maxStep, FullTurn) + FullTurn, FullTurn)
             ELSE smoothedHeading

\* lines 363-368 with the accumulator left at 0 by the first sample.
NextRotationFromZero(rotationAccum, smoothedHeading, prev) ==
    IF prev # Null
    THEN LET deltaForRot == ShortestDelta(smoothedHeading, prev)
         IN  IF IsNaN(deltaForRot) \/ IsNaN(rotationAccum) THEN NaN
             ELSE rotationAccum + deltaForRot
    ELSE 0

\* lines 363-368.
NextRotation(rotationAccum, smoothedHeading, prev) ==
    IF prev # Null
    THEN LET deltaForRot == ShortestDelta(smoothedHeading, prev)
         IN  IF IsNaN(deltaForRot) \/ IsNaN(rotationAccum) THEN NaN
             ELSE rotationAccum + deltaForRot
    ELSE smoothedHeading

(***************************************************************************)
(* The body of the magnetometer listener past its isMounted guard (lines   *)
(* 242-395): the refs after the sample s = <<x, y, z>> and the CompassData *)
(* handed to setState.  heading and accuracy are integers (degrees,        *)
(* points); rotationDeg, rollDeg, pitchDeg and tiltDeg are in ticks.       *)
(***************************************************************************)
\* lines 362-395: the accumulator, the previous heading and the estimate.
EmitEstimate(refs, s, tilt, values, emaMag, hist, accuracy, limited, rotation) ==
    [ refs |-> [refs EXCEPT !.smoothingFilter = values,
                            !.emaMagRef = emaMag,
                            !.magHistoryRef = hist,
                            !.displayAccRef = accuracy,
                            !.rotationAccumRef = rotation,
                            !.prevHeadingRef = limited],
      data |-> [ heading |-> RoundDeg(limited),
                 accuracy |-> RoundCenti(accuracy),
                 isCalibrated |-> ~IsNaN(accuracy) /\ accuracy > 60 * Centi,
                 cardinalDirection |-> getCardinalDirection(limited).name,
                 cardinalAbbreviation |-> getCardinalDirection(limited).abbr,
                 rotationDeg |-> rotation,
                 rollDeg |-> tilt.rollDeg,
                 pitchDeg |-> tilt.pitchDeg,
                 tiltDeg |-> tilt.tiltDeg,
                 isLevel |-> tilt.isLevel,
                 magX |-> s[1], magY |-> s[2], magZ |-> s[3] ] ]

\* lines 362-369.
Accumulate(refs, s, tilt, values, emaMag, hist, accuracy, limited) ==
    EmitEstimate(refs, s, tilt, values, emaMag, hist, accuracy, limited,
                 NextRotation(refs.rotationAccumRef, limited, refs.prevHeadingRef))

\* lines 344-361.
Limit(refs, s, tilt, values, emaMag, hist, smoothed, accuracy) ==
    Accumulate(refs, s, tilt, values, emaMag, hist, accuracy,
               StepLimit(smoothed, refs.prevHeadingRef, MaxStep(accuracy, tilt)))

\* lines 280 and 293-342: the circular mean and the displayed accuracy.
SmoothAndScore(refs, s, tilt, values, emaMag, hist) ==
    Limit(refs, s, tilt, values, emaMag, hist,
          CircularMean(values),
          Ema(AccAlphaPct,
              CombinedScore(FieldScore(emaMag), VarianceScore(StdDev(hist)),
                            TiltScore(tilt.tiltDeg)),
              refs.displayAccRef))

\* lines 280-292: the window, the magnitude EMA and the magnitude history.
Record(refs, s, tilt, rawHeading, magnitude) ==
    SmoothAndScore(refs, s, tilt,
                   PushBounded(refs.smoothingFilter, rawHeading, SmoothingSize),
                   NextEmaMag(refs.emaMagRef, magnitude),
                   PushBounded(refs.magHistoryRef, magnitude, MagHistorySize))

MagProcess(refs, s, useCross, axisFlipEW) ==
    Record(refs, s, TiltMetrics(refs.latestAccelRef),
           RawHeading(s[1], s[2], s[3], refs.latestAccelRef, useCross, axisFlipEW),
           Magnitude(s[1], s[2], s[3]))

\* lines 164-179: the estimate of simulation mode; simulatedHeading in ticks.
SimulatedData(simulatedHeading) ==
        [ heading |-> RoundDeg(simulatedHeading),
          accuracy |-> 100,
          isCalibrated |-> TRUE,
          cardinalDirection |-> getCardinalDirection(simulatedHeading).name,
          cardinalAbbreviation |-> getCardinalDirection(simulatedHeading).abbr,
          rotationDeg |-> simulatedHeading,
          rollDeg |-> 0, pitchDeg |-> 0, tiltDeg |-> 0,
          isLevel |-> "true",
          magX |-> Null, magY |-> Null, magZ |-> Null ]

(***************************************************************************)
(* Options (lines 111-123).  An options argument is undefined, a bare      *)
(* number, or an object whose absent fields are Null / "undefined".        *)
(***************************************************************************)
NoOptions == [kind |-> "undefined"]
NumberOptions(n) == [kind |-> "number", value |-> n]
ObjectOptions(interval, flip, cross, sim) ==
    [kind |-> "object", updateInterval |-> interval, axisFlipEW |-> flip,
     useCrossProduct |-> cross, simulatedHeading |-> sim]

\* lines 118-123: opts, updateMs, axisFlipEW, useCross, simulatedHeading.
ResolveOptions(options) ==
    LET opts == IF options.kind = "number"
                THEN ObjectOptions(options.value, "undefined", "undefined", Null)
                ELSE IF options.kind = "undefined"
                THEN ObjectOptions(Null, "undefined", "undefined", Null)
                ELSE options
    IN  [ updateMs |-> IF opts.updateInterval = Null THEN DefaultUpdateMs
                                                     ELSE opts.updateInterval,
          axisFlipEW |-> opts.axisFlipEW = "true",
          useCross |-> opts.useCrossProduct # "false",
          simulatedHeading |-> opts.simulatedHeading ]

(***************************************************************************)
(* State.                                                                  *)
(*   env     the device: isSimulator (lines 130-132) and what the two      *)
(*           isAvailableAsync calls answer; fixed for a behaviour.         *)
(*   phase   per hook instance: "new" (constructed, effect not yet run),   *)
(*           "mounted", "unmounted".                                       *)
(*   state   per instance, the CompassState of useState (lines 134-139).   *)
(*   refs    per instance, the useRef cells (lines 141-155).               *)
(*   runs    per instance, the sequence of effect runs (subscriptions):    *)
(*           the closure of one useEffect call (lines 157-435) with its    *)
(*           isMounted flag, its captured options, the listeners it        *)
(*           registered, the estimates it emitted and the position pc of   *)
(*           its initializeCompass: "awaitMag" (line 188), "awaitAccel"    *)
(*           (line 213), or ended as "simulated" (line 184), "cancelled"   *)
(*           (line 190), "unavailable" (line 204), "failed" (line 406) or  *)
(*           "listening" (line 405).                                       *)
(*   sensors the module-level update intervals of Magnetometer and         *)
(*           Accelerometer (setUpdateInterval).                            *)
(*   ticks   per instance, the number of sensor callbacks delivered.       *)
(* The application around the hook (src/app/index.tsx):                    *)
(*   screen  the state of CompassScreen (lines 22-24), the system colour   *)
(*           scheme it last rendered with, and its asynchronous work in    *)
(*           flight: loads, the multiGet chains of the effect of lines     *)
(*           32-60, and saves, the calls of handleSetupComplete (lines     *)
(*           62-69).                                                       *)
(*   setup   the state of the SetupScreen instance last mounted (lines     *)
(*           145-157), the hook instance it holds and the number of hook   *)
(*           estimates its effects have seen.                              *)
(*   storage the three AsyncStorage keys of lines 13-15.                   *)
(*   timers  the pending setTimeout callbacks of SetupScreen, in the order *)
(*           they were scheduled.                                          *)
(*   now     the clock, in units of TimeUnitMs milliseconds.               *)
(***************************************************************************)
VARIABLES env, phase, state, refs, runs, sensors, ticks

VARIABLES screen, setup, storage, timers, now

\* The deploy tool: its terminal screen and the workflows it has started.
VARIABLES deploy

appVars == <<screen, setup, storage, timers, now, deploy>>

vars == <<env, phase, state, refs, runs, sensors, ticks, appVars>>

NullData == <<>>

\* lines 134-139.
InitialState ==
    [data |-> NullData, isAvailable |-> FALSE, isLoading |-> TRUE, error |-> "null"]

Current(i) == Len(runs[i])

NewRun(deps) ==
    [ pc |-> "start", isMounted |-> TRUE, deps |-> deps,
      magAdded |-> FALSE, magRemoves |-> 0,
      accelAdded |-> FALSE, accelRemoves |-> 0,
      emitted |-> 0 ]

\* React drops a setState of a component that is no longer mounted.
SetState(i, new) == IF phase[i] = "unmounted" THEN state[i] ELSE new

MagAttached(run) == run.magAdded /\ run.magRemoves = 0
AccelAttached(run) == run.accelAdded /\ run.accelRemoves = 0

\* lines 22-24 of src/app/index.tsx: CompassScreen before its effect has run.
InitialScreen(systemColorScheme) ==
    [ mounted |-> FALSE, systemColorScheme |-> systemColorScheme,
      setupComplete |-> "null", axisFlip |-> FALSE, colorScheme |-> "null",
      loads |-> <<>>, saves |-> <<>> ]

\* No SetupScreen has been mounted yet.
NoSetup ==
    [ hook |-> 0, mounted |-> FALSE, step |-> "welcome",
      calibrationProgress |-> 0, axisCheckSamples |-> <<>>,
      detectedFlip |-> FALSE, magSamples |-> <<>>, orientationRegions |-> {},
      seen |-> 0 ]

\* lines 145-157 of src/app/index.tsx: a SetupScreen as constructed, holding
\* hook instance h.
InitialSetup(h) == [NoSetup EXCEPT !.hook = h, !.mounted = TRUE]

\* AsyncStorage with none of the three keys set (getItem gives null).
EmptyStorage == [setupComplete |-> "null", axisFlip |-> "null", theme |-> "null"]

\* src/cli/deploy.tsx lines 44-54: DeployApp's state, no workflow started.
NoDeploy ==
    [ screen |-> "menu", taskStatus |-> "running", isInteractive |-> FALSE,
      delayed |-> <<>>, calls |-> <<>> ]

AppConstructed(schemes, stores) ==
    /\ deploy = NoDeploy
    /\ screen \in {InitialScreen(s) : s \in schemes}
    /\ setup = NoSetup
    /\ storage \in stores
    /\ timers = <<>>
    /\ now = 0

HooksConstructed(insts, envs) ==
    /\ env \in envs
    /\ phase = [i \in insts |-> "new"]
    /\ state = [i \in insts |-> InitialState]
    /\ refs = [i \in insts |-> InitialRefs]
    /\ runs = [i \in insts |-> <<>>]
    /\ sensors = [magInterval |-> Null, accelInterval |-> Null]
    /\ ticks = [i \in insts |-> 0]

\* The hook alone: the application is as constructed and stays so.
InitWith(insts, envs) ==
    /\ HooksConstructed(insts, envs)
    /\ AppConstructed({"dark"}, {EmptyStorage})

(***************************************************************************)
(* The effect (lines 157-435).                                             *)
(***************************************************************************)
\* lines 423-434: the cleanup of the current run, as a function of the
\* instance's runs and refs.
CleanupRuns(rs, rf) ==
    [r \in 1..Len(rs) |->
        [rs[r] EXCEPT
            !.isMounted = IF r = Len(rs) THEN FALSE ELSE @,
            !.magRemoves = IF rf.magSubscriptionRef = r THEN @ + 1 ELSE @,
            !.accelRemoves = IF rf.accelSubscriptionRef = r THEN @ + 1 ELSE @]]

CleanupRefs(rf) ==
    [rf EXCEPT !.magSubscriptionRef = 0,
               !.accelSubscriptionRef = 0,
               !.smoothingFilter = <<>>]

\* StartEffect without the return of line 184: simulation mode sets the state
\* and goes on to the magnetometer availability check.
StartEffectNoReturn(i, deps, rs, rf) ==
    LET sim == env.isSimulator /\ deps.simulatedHeading # Null
        run == [NewRun(deps) EXCEPT !.pc = "awaitMag",
                                    !.emitted = IF sim THEN 1 ELSE 0]
    IN  /\ runs' = [runs EXCEPT ![i] = Append(rs, run)]
        /\ refs' = [refs EXCEPT ![i] = rf]
        /\ state' = [state EXCEPT ![i] =
                        IF sim
                        THEN [data |-> SimulatedData(deps.simulatedHeading),
                              isAvailable |-> TRUE, isLoading |-> FALSE,
                              error |-> "null"]
                        ELSE @]

\* lines 158-185 and 421: a new run of the effect, up to the first await of
\* initializeCompass.  In simulation mode the run ends here.
StartEffect(i, deps, rs, rf) ==
    LET sim == env.isSimulator /\ deps.simulatedHeading # Null
        run == [NewRun(deps) EXCEPT !.pc = IF sim THEN "simulated" ELSE "awaitMag",
                                    !.emitted = IF sim THEN 1 ELSE 0]
    IN  /\ runs' = [runs EXCEPT ![i] = Append(rs, run)]
        /\ refs' = [refs EXCEPT ![i] = rf]
        /\ state' = [state EXCEPT ![i] =
                        IF sim
                        THEN [data |-> SimulatedData(deps.simulatedHeading),
                              isAvailable |-> TRUE, isLoading |-> FALSE,
                              error |-> "null"]
                        ELSE @]

\* The first render commits: the effect runs for the first time.
Mount(i, options) ==
    /\ phase[i] = "new"
    /\ phase' = [phase EXCEPT ![i] = "mounted"]
    /\ StartEffect(i, ResolveOptions(options), runs[i], refs[i])
    /\ UNCHANGED <<appVars, env, sensors, ticks>>

\* A render with changed dependencies (line 435): the cleanup of the current
\* run, then a new run of the effect.
Rerender(i, options) ==
    /\ phase[i] = "mounted"
    /\ ResolveOptions(options) # runs[i][Current(i)].deps
    /\ StartEffect(i, ResolveOptions(options),
                   CleanupRuns(runs[i], refs[i]), CleanupRefs(refs[i]))
    /\ UNCHANGED <<appVars, env, phase, sensors, ticks>>

\* The component unmounts: the cleanup of the current run.
Unmount(i) ==
    /\ phase[i] = "mounted"
    /\ phase' = [phase EXCEPT ![i] = "unmounted"]
    /\ runs' = [runs EXCEPT ![i] = CleanupRuns(runs[i], refs[i])]
    /\ refs' = [refs EXCEPT ![i] = CleanupRefs(refs[i])]
    /\ UNCHANGED <<appVars, env, state, sensors, ticks>>

\* MagAvailableResolved whose unavailable branch leaves isLoading true.
MagAvailableResolvedStillLoading(i, r) ==
    /\ r \in 1..Len(runs[i])
    /\ runs[i][r].pc = "awaitMag"
    /\ IF ~runs[i][r].isMounted
       THEN /\ runs' = [runs EXCEPT ![i][r].pc = "cancelled"]
            /\ UNCHANGED <<state, sensors>>
       ELSE IF ~env.magAvailable
       THEN /\ runs' = [runs EXCEPT ![i][r].pc = "unavailable"]
            /\ state' = [state EXCEPT ![i] = SetState(i,
                            [data |-> NullData, isAvailable |-> FALSE,
                             isLoading |-> TRUE,
                             error |-> "Magnetometer not available on this device"])]
            /\ UNCHANGED sensors
       ELSE /\ runs' = [runs EXCEPT ![i][r].pc = "awaitAccel"]
            /\ sensors' = [sensors EXCEPT !.magInterval = runs[i][r].deps.updateMs]
            /\ UNCHANGED state
    /\ UNCHANGED <<appVars, env, phase, refs, ticks>>

\* lines 188-208: Magnetometer.isAvailableAsync() resolves.
MagAvailableResolved(i, r) ==
    /\ r \in 1..Len(runs[i])
    /\ runs[i][r].pc = "awaitMag"
    /\ IF ~runs[i][r].isMounted
       THEN /\ runs' = [runs EXCEPT ![i][r].pc = "cancelled"]
            /\ UNCHANGED <<state, sensors>>
       ELSE IF ~env.magAvailable
       THEN /\ runs' = [runs EXCEPT ![i][r].pc = "unavailable"]
            /\ state' = [state EXCEPT ![i] = SetState(i,
                            [data |-> NullData, isAvailable |-> FALSE,
                             isLoading |-> FALSE,
                             error |-> IF env.isSimulator
                                       THEN "Simulator mode: Pass simulatedHeading prop to useCompass to test"
                                       ELSE "Magnetometer not available on this device"])]
            /\ UNCHANGED sensors
       ELSE /\ runs' = [runs EXCEPT ![i][r].pc = "awaitAccel"]
            /\ sensors' = [sensors EXCEPT !.magInterval = runs[i][r].deps.updateMs]
            /\ UNCHANGED state
    /\ UNCHANGED <<appVars, env, phase, refs, ticks>>

\* lines 188 and 406-418: Magnetometer.isAvailableAsync() rejects.
MagAvailableRejected(i, r) ==
    /\ r \in 1..Len(runs[i])
    /\ runs[i][r].pc = "awaitMag"
    /\ runs' = [runs EXCEPT ![i][r].pc = "failed"]
    /\ state' = [state EXCEPT ![i] =
                    IF runs[i][r].isMounted
                    THEN SetState(i, [data |-> NullData, isAvailable |-> FALSE,
                                      isLoading |-> FALSE,
                                      error |-> "Failed to initialize compass"])
                    ELSE @]
    /\ UNCHANGED <<appVars, env, phase, refs, sensors, ticks>>

\* lines 211-239 and 398-405: Accelerometer.isAvailableAsync() settles with
\* accelAvailable (false when it rejects, line 214); the listeners are
\* registered, the refs assigned and the state updated.
AccelAvailableSettled(i, r, accelAvailable) ==
    /\ r \in 1..Len(runs[i])
    /\ runs[i][r].pc = "awaitAccel"
    /\ runs' = [runs EXCEPT ![i][r].pc = "listening",
                            ![i][r].accelAdded = accelAvailable,
                            ![i][r].magAdded = TRUE]
    /\ sensors' = IF accelAvailable
                  THEN [sensors EXCEPT !.accelInterval = runs[i][r].deps.updateMs]
                  ELSE sensors
    /\ refs' = [refs EXCEPT ![i].magSubscriptionRef = r,
                            ![i].accelSubscriptionRef = IF accelAvailable THEN r ELSE 0]
    /\ state' = [state EXCEPT ![i] =
                    SetState(i, [@ EXCEPT !.isAvailable = TRUE, !.isLoading = FALSE])]
    /\ UNCHANGED <<appVars, env, phase, ticks>>

\* lines 220-234: the accelerometer listener of run r receives the sample a.
AccelSample(i, r, a) ==
    /\ r \in 1..Len(runs[i])
    /\ AccelAttached(runs[i][r])
    /\ ticks' = [ticks EXCEPT ![i] = @ + 1]
    /\ refs' = [refs EXCEPT ![i] =
                   IF runs[i][r].isMounted THEN AccelCondition(@, a) ELSE @]
    /\ UNCHANGED <<appVars, env, phase, state, runs, sensors>>

\* MagSample with one smoothing window shared by every instance (a
\* module-level SmoothingFilter in place of the useRef of line 141).
MagSampleSharedWindow(i, r, s) ==
    /\ r \in 1..Len(runs[i])
    /\ MagAttached(runs[i][r])
    /\ ticks' = [ticks EXCEPT ![i] = @ + 1]
    /\ IF ~runs[i][r].isMounted
       THEN UNCHANGED <<refs, state, runs>>
       ELSE LET out == MagProcess(refs[i], s, runs[i][r].deps.useCross,
                                  runs[i][r].deps.axisFlipEW)
            IN  /\ refs' = [j \in DOMAIN refs |->
                               IF j = i THEN out.refs
                               ELSE [refs[j] EXCEPT !.smoothingFilter =
                                                        out.refs.smoothingFilter]]
                /\ state' = [state EXCEPT ![i] =
                                SetState(i, [data |-> out.data, isAvailable |-> TRUE,
                                             isLoading |-> FALSE, error |-> "null"])]
                /\ runs' = [runs EXCEPT ![i][r].emitted = @ + 1]
    /\ UNCHANGED <<appVars, env, phase, sensors>>

\* lines 239-396: the magnetometer listener of run r receives the sample s.
MagSample(i, r, s) ==
    /\ r \in 1..Len(runs[i])
    /\ MagAttached(runs[i][r])
    /\ ticks' = [ticks EXCEPT ![i] = @ + 1]
    /\ IF ~runs[i][r].isMounted
       THEN UNCHANGED <<refs, state, runs>>
       ELSE LET out == MagProcess(refs[i], s, runs[i][r].deps.useCross,
                                  runs[i][r].deps.axisFlipEW)
            IN  /\ refs' = [refs EXCEPT ![i] = out.refs]
                /\ state' = [state EXCEPT ![i] =
                                SetState(i, [data |-> out.data, isAvailable |-> TRUE,
                                             isLoading |-> FALSE, error |-> "null"])]
                /\ runs' = [runs EXCEPT ![i][r].emitted = @ + 1]
    /\ UNCHANGED <<appVars, env, phase, sensors>>

(***************************************************************************)
(* Bounds of the application's behaviours: SetupScreen mounts, runs of the *)
(* effect of CompassScreen that read the storage, presses of the last      *)
(* button of the setup, pending timers and the clock.                      *)
(***************************************************************************)
MaxSetups == 2
MaxLoads == 2
MaxCompletes == 2
MaxPending == 3
MaxNow == 24
MaxLate == 1
StartBy == 1

(***************************************************************************)
(* The guided setup: SetupScreen (src/app/index.tsx lines 141-503).        *)
(* Times are in units of 500 ms.                                           *)
(***************************************************************************)
AxisCheckDelay == 1
CompleteDelay == 2
MagWindow == 20
AxisWindow == 10
TargetRegions == 18
MinRegions == 15
MinProgress == 85
VarianceSamples == 20
MinSpread == 5
MaxSpread == 20
SpreadBonus == 50
AxisAccuracy == 60
AxisSamplesNeeded == 20

\* lines 174-178: the options SetupScreen gives useCompass.
SetupOptions == ObjectOptions(100, "false", "true", Null)

IsData(d) == DOMAIN d # {}

\* lines 216-221: data && data.magX !== undefined && ... (undefined is Null).
HasField(d) == IsData(d) /\ d.magX # Null /\ d.magY # Null /\ d.magZ # Null

\* lines 237 and 309: updated.filter((s) => now - s.time < window).
KeepRecent(samples, t, window) == SelectSeq(samples, LAMBDA s : t - s.time < window)

\* lines 251-253: Math.floor((n + 1) * 1.5) for the component n = c / mag of
\* the unit vector, decided on the squares: 0 below -1/3, 1 below 1/3, 2 below
\* 1, and 3 for a vector along the positive axis.
Quantize(c, magSq) ==
    IF c > 0 /\ c * c = magSq THEN 3
    ELSE IF c > 0 /\ 9 * c * c >= magSq THEN 2
    ELSE IF c < 0 /\ 9 * c * c > magSq THEN 0
    ELSE 1

\* lines 240-254: the region key of a sample.
RegionKey(x, y, z) ==
    LET magSq == x * x + y * y + z * z
    IN  <<Quantize(x, magSq), Quantize(y, magSq), Quantize(z, magSq)>>

\* line 246: mag > 0.
HasRegion(x, y, z) ==
    /\ ~IsNaN(x) /\ ~IsNaN(y) /\ ~IsNaN(z)
    /\ x * x + y * y + z * z > 0

\* lines 215-263: the effect on [step, data] that records a sample and its
\* orientation region.
TracksCalibration(s, d) == s.step = "calibrating" /\ HasField(d)

TrackCalibration(s, d, t) ==
    IF TracksCalibration(s, d)
    THEN LET x == Finite(d.magX)
             y == Finite(d.magY)
             z == Finite(d.magZ)
         IN  [s EXCEPT
                !.magSamples =
                    KeepRecent(Append(@, [x |-> x, y |-> y, z |-> z, time |-> t]),
                               t, MagWindow),
                !.orientationRegions =
                    IF HasRegion(x, y, z) THEN @ \cup {RegionKey(x, y, z)} ELSE @]
    ELSE s

\* lines 303-312: the effect on [step, data] that records a heading.
SamplesAxis(s, d) ==
    /\ s.step = "axis-check"
    /\ IsData(d)
    /\ ~IsNaN(d.accuracy)
    /\ d.accuracy >= AxisAccuracy

SampleAxis(s, d, t) ==
    IF SamplesAxis(s, d)
    THEN [s EXCEPT !.axisCheckSamples =
                      KeepRecent(Append(@, [heading |-> d.heading, time |-> t]),
                                 t, AxisWindow)]
    ELSE s

\* lines 275-283: the standard deviation over all the samples (divided by
\* their number), in hundredths.
SpreadOf(magnitudes) ==
    IF HasNaN(magnitudes) THEN NaN
    ELSE LET mean == RDiv(SumSeq(magnitudes), Len(magnitudes))
             sq == [k \in 1..Len(magnitudes) |->
                       (magnitudes[k] - mean) * (magnitudes[k] - mean)]
         IN  Sqrt(RDiv(SumSeq(sq), Len(magnitudes)))

\* lines 272-287 without the test of line 274: any number of samples.
SetupVarianceScoreAnyCount(samples) ==
    IF Len(samples) >= 1
    THEN LET spread == SpreadOf([k \in 1..Len(samples) |->
                                    Magnitude(samples[k].x, samples[k].y, samples[k].z)])
         IN  IF ~IsNaN(spread) /\ spread >= MinSpread * Centi
                               /\ spread <= MaxSpread * Centi
             THEN SpreadBonus ELSE 0
    ELSE 0

\* lines 272-287: 50 when there are 20 samples whose magnitudes spread by 5 to
\* 20 micro-tesla.
SetupVarianceScore(samples) ==
    IF Len(samples) >= VarianceSamples
    THEN LET spread == SpreadOf([k \in 1..Len(samples) |->
                                    Magnitude(samples[k].x, samples[k].y, samples[k].z)])
         IN  IF ~IsNaN(spread) /\ spread >= MinSpread * Centi
                               /\ spread <= MaxSpread * Centi
             THEN SpreadBonus ELSE 0
    ELSE 0

\* lines 268-270: Math.min(100, (regionCount / targetRegions) * 100), in
\* hundredths.
CoverageScore(regionCount) ==
    Min2(100 * Centi, RDiv(regionCount * 100 * Centi, TargetRegions))

\* line 289: Math.min(100, coverageScore + varianceScore * 0.5), in hundredths.
Progress(s) ==
    Min2(100 * Centi,
         CoverageScore(Cardinality(s.orientationRegions))
           + (SetupVarianceScore(s.magSamples) * Centi) \div 2)

\* line 293 without regionCount >= 15.
CalibrationGoodByProgress(progress, regionCount) ==
    progress >= MinProgress * Centi

\* line 293.
CalibrationGood(progress, regionCount) ==
    progress >= MinProgress * Centi /\ regionCount >= MinRegions

\* NeedsFlip decided by the headings sampled: the flip is needed when the
\* headings fell while the samples were taken.
NeedsFlipMeasured(samples) == samples[Len(samples)].heading < samples[1].heading

\* line 319: const needsFlip = true.
NeedsFlip(samples) == TRUE

\* line 315.
AxisCheckDone(s) ==
    s.step = "axis-check" /\ Len(s.axisCheckSamples) >= AxisSamplesNeeded

\* A pending setTimeout callback of SetupScreen instance owner.
Timer(owner, to, due) == [owner |-> owner, to |-> to, due |-> due]

\* ProgressEffect whose timer sets the last step.
ProgressEffectSkipping(s, progress, t) ==
    IF s.step = "calibrating"
    THEN [ setup |-> [s EXCEPT !.calibrationProgress = progress],
           scheduled |->
               IF CalibrationGood(progress, Cardinality(s.orientationRegions))
               THEN <<Timer(s.hook, "complete", t + AxisCheckDelay)>>
               ELSE <<>> ]
    ELSE [setup |-> s, scheduled |-> <<>>]

\* lines 266-300: the effect on [step, orientationRegions, magSamples], given
\* the progress it computes.
ProgressEffect(s, progress, t) ==
    IF s.step = "calibrating"
    THEN [ setup |-> [s EXCEPT !.calibrationProgress = progress],
           scheduled |->
               IF CalibrationGood(progress, Cardinality(s.orientationRegions))
               THEN <<Timer(s.hook, "axis-check", t + AxisCheckDelay)>>
               ELSE <<>> ]
    ELSE [setup |-> s, scheduled |-> <<>>]

\* lines 314-327: the effect on [step, axisCheckSamples].
AxisEffect(s, t) ==
    IF AxisCheckDone(s)
    THEN [ setup |-> [s EXCEPT !.detectedFlip = NeedsFlip(s.axisCheckSamples)],
           scheduled |-> <<Timer(s.hook, "complete", t + CompleteDelay)>> ]
    ELSE [setup |-> s, scheduled |-> <<>>]

\* The effects of one render of SetupScreen, in the order of the source.  The
\* two effects on [step, data] run when the step or the hook's data changed;
\* each of the two others runs when the step changed or the state it depends
\* on was set by the first two (a new array at every set).
EffectsThen(s, progressRuns, axisRuns, t) ==
    LET first == IF progressRuns THEN ProgressEffect(s, Progress(s), t)
                                 ELSE [setup |-> s, scheduled |-> <<>>]
        second == IF axisRuns THEN AxisEffect(first.setup, t)
                              ELSE [setup |-> first.setup, scheduled |-> <<>>]
    IN  [setup |-> second.setup, scheduled |-> first.scheduled \o second.scheduled]

AfterRender(s, d, t, stepChanged) ==
    EffectsThen(SampleAxis(TrackCalibration(s, d, t), d, t),
                stepChanged \/ TracksCalibration(s, d),
                stepChanged \/ SamplesAxis(s, d), t)

\* The estimate the hook of SetupScreen s last gave it.
SetupData(s) == state[s.hook].data

\* setTimeout: of the pending callbacks, the one due first runs first, and of
\* two due together the one scheduled first.
IsNext(q, k) ==
    \A j \in 1..Len(q) :
        j # k => \/ q[j].due > q[k].due
                 \/ q[j].due = q[k].due /\ j > k

RemoveAt(q, k) == SubSeq(q, 1, k - 1) \o SubSeq(q, k + 1, Len(q))

\* lines 329-332: the Start Setup button, shown at the welcome step only
\* (lines 341-379), and the render that follows.
HandleStart ==
    /\ setup.mounted
    /\ setup.step = "welcome"
    /\ LET out == AfterRender([setup EXCEPT !.step = "calibrating"],
                              SetupData(setup), now, TRUE)
       IN  /\ setup' = out.setup
           /\ timers' = timers \o out.scheduled
    /\ UNCHANGED <<deploy, env, phase, state, refs, runs, sensors, ticks, screen, storage, now>>

\* The render of SetupScreen after its hook gave it a new estimate.
DataChanged(i) ==
    /\ setup.mounted
    /\ setup.hook = i
    /\ Len(runs[i]) = 1
    /\ setup.seen # runs[i][1].emitted
    /\ LET out == AfterRender(setup, state[i].data, now, FALSE)
       IN  /\ setup' = [out.setup EXCEPT !.seen = runs[i][1].emitted]
           /\ timers' = timers \o out.scheduled
    /\ UNCHANGED <<deploy, env, phase, state, refs, runs, sensors, ticks, screen, storage, now>>

\* lines 295-297 and 323-325: a setTimeout callback runs setStep; React drops
\* it for a SetupScreen that is gone and renders again when the step changed.
TimerFires(k) ==
    /\ k \in 1..Len(timers)
    /\ timers[k].due <= now
    /\ IsNext(timers, k)
    /\ IF setup.mounted /\ setup.hook = timers[k].owner /\ setup.step # timers[k].to
       THEN LET out == AfterRender([setup EXCEPT !.step = timers[k].to],
                                   SetupData(setup), now, TRUE)
            IN  /\ setup' = out.setup
                /\ timers' = RemoveAt(timers, k) \o out.scheduled
       ELSE /\ timers' = RemoveAt(timers, k)
            /\ UNCHANGED setup
    /\ UNCHANGED <<deploy, env, phase, state, refs, runs, sensors, ticks, screen, storage, now>>

(***************************************************************************)
(* CompassScreen (src/app/index.tsx lines 17-100).                         *)
(***************************************************************************)
BoolString(b) == IF b THEN "true" ELSE "false"

\* a || b on strings and null.
OrElse(a, b) == IF a = "null" THEN b ELSE a

\* lines 78-98: what CompassScreen renders.
Rendered(scr) ==
    IF scr.setupComplete = "null" \/ scr.colorScheme = "null" THEN "loading"
    ELSE IF scr.setupComplete = "false" THEN "setup"
    ELSE "compass"

\* lines 92-96: the properties handed to Compass.
CompassProps(scr) == [axisFlipEW |-> scr.axisFlip, colorScheme |-> scr.colorScheme]

\* The commit of a new state of CompassScreen: SetupScreen is mounted when it
\* comes to be rendered, with a hook instance of its own, and unmounted when
\* it ceases to be.
Render(newScreen) ==
    /\ (Rendered(newScreen) = "setup" /\ ~setup.mounted) => setup.hook < MaxSetups
    /\ screen' = newScreen
    /\ setup' = IF Rendered(newScreen) = "setup"
                THEN IF setup.mounted THEN setup ELSE InitialSetup(setup.hook + 1)
                ELSE [setup EXCEPT !.mounted = FALSE]

\* lines 32-60, up to the call of multiGet.
ScreenEffect(scr, sys) ==
    IF env.isSimulator
    THEN [scr EXCEPT !.setupComplete = "true",
                     !.axisFlip = TRUE,
                     !.colorScheme = OrElse(sys, "dark")]
    ELSE [scr EXCEPT !.loads = Append(@, [pc |-> "get", systemColorScheme |-> sys,
                                          values |-> EmptyStorage])]

\* The first render of CompassScreen commits and its effect runs.
ScreenMount ==
    /\ ~screen.mounted
    /\ Render(ScreenEffect([screen EXCEPT !.mounted = TRUE], screen.systemColorScheme))
    /\ UNCHANGED <<deploy, env, phase, state, refs, runs, sensors, ticks, storage, timers, now>>

\* useColorScheme gives another value: the effect runs again (line 60).
ColorSchemeChanged(sys) ==
    /\ screen.mounted
    /\ sys # screen.systemColorScheme
    /\ Len(screen.loads) < MaxLoads
    /\ Render(ScreenEffect([screen EXCEPT !.systemColorScheme = sys], sys))
    /\ UNCHANGED <<deploy, env, phase, state, refs, runs, sensors, ticks, storage, timers, now>>

\* line 42: AsyncStorage reads the three keys.
MultiGetServed(k) ==
    /\ k \in 1..Len(screen.loads)
    /\ screen.loads[k].pc = "get"
    /\ screen' = [screen EXCEPT !.loads[k].pc = "got", !.loads[k].values = storage]
    /\ UNCHANGED <<deploy, env, phase, state, refs, runs, sensors, ticks, setup, storage, timers, now>>

\* lines 56-58.
ApplyLoad(scr, setupDone, flip, savedTheme, sys) ==
    [scr EXCEPT !.setupComplete = BoolString(setupDone),
                !.axisFlip = flip,
                !.colorScheme = OrElse(savedTheme, OrElse(sys, "dark"))]

\* MigratedFlip that leaves the stored flip as it is.
MigratedFlipKept(setupDone, flip) == flip

\* lines 48-53: a setup completed without the flip is given the flip.
MigratedFlip(setupDone, flip) == IF setupDone /\ ~flip THEN TRUE ELSE flip

\* lines 43-58: the callback of multiGet, up to the await of the migration
\* (line 52) or, without migration, to its end.
LoadResolved(k) ==
    /\ k \in 1..Len(screen.loads)
    /\ screen.loads[k].pc = "got"
    /\ LET load == screen.loads[k]
           setupDone == load.values.setupComplete = "true"
           flip == load.values.axisFlip = "true"
       IN  IF setupDone /\ ~flip
           THEN /\ storage' = [storage EXCEPT !.axisFlip = "true"]
                /\ screen' = [screen EXCEPT !.loads[k].pc = "migrating"]
                /\ UNCHANGED setup
           ELSE /\ Render(ApplyLoad([screen EXCEPT !.loads[k].pc = "done"],
                                    setupDone, flip, load.values.theme,
                                    load.systemColorScheme))
                /\ UNCHANGED storage
    /\ UNCHANGED <<deploy, env, phase, state, refs, runs, sensors, ticks, timers, now>>

\* lines 52-58: the migration's setItem has resolved.
MigrationSaved(k) ==
    /\ k \in 1..Len(screen.loads)
    /\ screen.loads[k].pc = "migrating"
    /\ Render(ApplyLoad([screen EXCEPT !.loads[k].pc = "done"], TRUE,
                        MigratedFlip(TRUE, FALSE),
                        screen.loads[k].values.theme,
                        screen.loads[k].systemColorScheme))
    /\ UNCHANGED <<deploy, env, phase, state, refs, runs, sensors, ticks, storage, timers, now>>

\* lines 334-337 and 62-66: the Start Using Compass button, shown at the
\* complete step only (lines 458-500), calls onComplete(detectedFlip), which
\* is handleSetupComplete, up to its await of multiSet.
HandleComplete ==
    /\ setup.mounted
    /\ setup.step = "complete"
    /\ Len(screen.saves) < MaxCompletes
    /\ screen' = [screen EXCEPT !.saves =
                     Append(@, [pc |-> "set", detectedFlip |-> setup.detectedFlip])]
    /\ storage' = [storage EXCEPT !.setupComplete = "true",
                                  !.axisFlip = BoolString(setup.detectedFlip)]
    /\ UNCHANGED <<deploy, env, phase, state, refs, runs, sensors, ticks, setup, timers, now>>

\* lines 67-68: multiSet has resolved.
SetupSaved(k) ==
    /\ k \in 1..Len(screen.saves)
    /\ screen.saves[k].pc = "set"
    /\ Render([screen EXCEPT !.saves[k].pc = "done",
                             !.axisFlip = screen.saves[k].detectedFlip,
                             !.setupComplete = "true"])
    /\ UNCHANGED <<deploy, env, phase, state, refs, runs, sensors, ticks, storage, timers, now>>

\* lines 71-75: Compass calls onToggleTheme.
HandleToggleTheme ==
    /\ Rendered(screen) = "compass"
    /\ LET newTheme == IF screen.colorScheme = "dark" THEN "light" ELSE "dark"
       IN  /\ screen' = [screen EXCEPT !.colorScheme = newTheme]
           /\ storage' = [storage EXCEPT !.theme = newTheme]
    /\ UNCHANGED <<deploy, env, phase, state, refs, runs, sensors, ticks, setup, timers, now>>

\* lines 659-663: the developer reset of Compass removes two keys.
ResetOnboarding ==
    /\ Rendered(screen) = "compass"
    /\ storage.setupComplete # "null" \/ storage.axisFlip # "null"
    /\ storage' = [storage EXCEPT !.setupComplete = "null", !.axisFlip = "null"]
    /\ UNCHANGED <<deploy, env, phase, state, refs, runs, sensors, ticks, screen, setup, timers, now>>

\* Half a second passes.
Tick ==
    /\ now < MaxNow
    /\ now' = now + 1
    /\ UNCHANGED <<deploy, env, phase, state, refs, runs, sensors, ticks, screen, setup, storage, timers>>

(***************************************************************************)
(* The deploy tool (src/cli).  A command is a child process that exits     *)
(* with success or failure; a workflow is a sequence of commands.          *)
(***************************************************************************)
MaxDeploys == 2

Command(kind, platform, interactive) ==
    [kind |-> kind, platform |-> platform, interactive |-> interactive]

\* fullIOSDeploy and fullAndroidDeploy of src/cli/utils/commands.ts (lines
\* 114-150), whose uploadMetadata is the iOS lane, and of src/unnamed/part_000
\* (lines 243-279): the commands in the order of the source.
LibraryWorkflow(file, platform) ==
    IF platform = "ios"
    THEN << Command("build", "ios", FALSE), Command("screenshots", "ios", FALSE),
            Command("metadata", "ios", FALSE), Command("submit", "ios", FALSE) >>
    ELSE << Command("build", "android", FALSE),
            Command("metadata", IF file = "commands.ts" THEN "ios" ELSE "android", FALSE),
            Command("submit", "android", FALSE) >>

\* src/cli/deploy.tsx lines 211-248: the streaming commands of full-ios and
\* full-android, with getStreamingOptions(true) for the two iOS uploads.
ActionWorkflow(action) ==
    IF action = "full-ios"
    THEN << Command("build", "ios", FALSE), Command("screenshots", "ios", TRUE),
            Command("metadata", "ios", TRUE), Command("submit", "ios", FALSE) >>
    ELSE << Command("build", "android", FALSE), Command("metadata", "android", FALSE),
            Command("submit", "android", FALSE) >>

\* A workflow that has started its first command and awaits its exit.
StartedCall(caller, platform, workflow) ==
    [ caller |-> caller, platform |-> platform, workflow |-> workflow,
      started |-> <<workflow[1]>>, results |-> <<>>, pc |-> "awaiting" ]

\* The call goes on to its next command, or returns after the last one.
Continue(c, results) ==
    IF Len(results) < Len(c.workflow)
    THEN [c EXCEPT !.results = results,
                   !.started = Append(@, c.workflow[Len(results) + 1])]
    ELSE [c EXCEPT !.results = results, !.pc = "returned"]

\* if (!results[results.length - 1].success) return results.
ReturnOnFailure(c, results) ==
    IF ~results[Len(results)]
    THEN [c EXCEPT !.results = results, !.pc = "returned"]
    ELSE Continue(c, results)

DeployUnchanged ==
    UNCHANGED <<env, phase, state, refs, runs, sensors, ticks,
                screen, setup, storage, timers, now>>

\* fullIOSDeploy() is called: step 1 starts.
fullIOSDeploy(file) ==
    /\ Len(deploy.calls) < MaxDeploys
    /\ deploy' = [deploy EXCEPT !.calls =
                     Append(@, StartedCall("library", "ios", LibraryWorkflow(file, "ios")))]
    /\ DeployUnchanged

\* fullAndroidDeploy() is called: step 1 starts.
fullAndroidDeploy(file) ==
    /\ Len(deploy.calls) < MaxDeploys
    /\ deploy' = [deploy EXCEPT !.calls =
                     Append(@, StartedCall("library", "android",
                                           LibraryWorkflow(file, "android")))]
    /\ DeployUnchanged

\* runCommand resolves for the command that call k of the library awaits:
\* results.push, then the test of success before the next step.
RunCommandResolves(k, success) ==
    /\ k \in 1..Len(deploy.calls)
    /\ deploy.calls[k].caller = "library"
    /\ deploy.calls[k].pc = "awaiting"
    /\ deploy' = [deploy EXCEPT !.calls[k] =
                     ReturnOnFailure(@, Append(@.results, success))]
    /\ DeployUnchanged

\* deploy.tsx lines 79-84 and 211-248: a full action is selected in the menu.
executeAction(action) ==
    /\ deploy.screen = "menu"
    /\ Len(deploy.calls) < MaxDeploys
    /\ deploy' = [deploy EXCEPT
                     !.screen = "running",
                     !.taskStatus = "running",
                     !.calls = Append(@, StartedCall("executeAction",
                                                     IF action = "full-ios" THEN "ios"
                                                     ELSE "android",
                                                     ActionWorkflow(action)))]
    /\ DeployUnchanged

\* deploy.tsx lines 108-142: onComplete of the streaming options.
OnComplete(d, command, success) ==
    IF command.interactive
    THEN [d EXCEPT !.delayed = Append(@, success)]
    ELSE [d EXCEPT !.isInteractive = FALSE,
                   !.taskStatus = IF success THEN "success" ELSE "error",
                   !.screen = "complete"]

\* deploy.tsx lines 86-98: getStreamingOptions for the command started next.
GetStreamingOptions(d, c) ==
    IF c.pc = "awaiting" /\ c.started[Len(c.started)].interactive
    THEN [d EXCEPT !.isInteractive = TRUE]
    ELSE d

\* The command that call k of executeAction awaits exits: runCommandStreaming
\* (part_000 lines 43-112) calls onComplete and resolves, whatever the exit
\* code, and executeAction goes on after its await.
StreamingResolves(k, success) ==
    /\ k \in 1..Len(deploy.calls)
    /\ deploy.calls[k].caller = "executeAction"
    /\ deploy.calls[k].pc = "awaiting"
    /\ LET c == deploy.calls[k]
           after == Continue(c, Append(c.results, success))
           completed == OnComplete(deploy, c.started[Len(c.started)], success)
       IN  deploy' = [GetStreamingOptions(completed, after) EXCEPT !.calls[k] = after]
    /\ DeployUnchanged

\* deploy.tsx lines 119-130: the setTimeout of an interactive command's
\* onComplete runs, two seconds after the command.
DelayedComplete ==
    /\ deploy.delayed # <<>>
    /\ deploy' = [deploy EXCEPT !.delayed = Tail(@),
                                !.isInteractive = FALSE,
                                !.taskStatus = IF deploy.delayed[1] THEN "success"
                                               ELSE "error",
                                !.screen = "complete"]
    /\ DeployUnchanged

\* deploy.tsx lines 60-62: ESC returns to the menu from any other screen.
Escape ==
    /\ deploy.screen # "menu"
    /\ deploy' = [deploy EXCEPT !.screen = "menu"]
    /\ DeployUnchanged

(***************************************************************************)
(* Inputs and bounds.  Magnetometer samples are in micro-tesla,            *)
(* accelerometer samples in hundredths of g, simulated headings in ticks.  *)
(***************************************************************************)
MaxTicks == 3
MaxRuns == 2
LifeMaxTicks == 2
LifeMaxRuns == 2
TwoMaxTicks == 2

One == {1}
Two == {1, 2}

\* A device with a magnetometer, with or without an accelerometer.
Devices == {[isSimulator |-> FALSE, magAvailable |-> TRUE, accelAvailable |-> a] :
               a \in BOOLEAN}

\* Every device and simulator.
AllDevices == [isSimulator : BOOLEAN, magAvailable : BOOLEAN, accelAvailable : BOOLEAN]

FiniteMagSamples ==
    { <<0, 45, 0>>, <<45, 0, 0>>, <<-1, 115, 0>>, <<20, -20, -30>>, <<0, 0, 0>> }

\* Samples that cannot be processed: a NaN component, the zero vector.
Unprocessable == { <<NaN, 45, 0>>, <<45, 0, NaN>>, <<0, 0, 0>> }

FaultMagSamples == { <<0, 45, 0>>, <<45, 0, 0>> } \cup Unprocessable

LifeMagSamples == { <<0, 45, 0>>, <<45, 0, 0>> }

AccelSamples == { <<0, 0, 100>>, <<0, 60, 80>> }

LifeAccelSamples == { <<0, 0, 100>> }

PipelineOptions ==
    { NoOptions,
      ObjectOptions(100, "false", "true", Null),
      ObjectOptions(Null, "true", "false", Null) }

\* The options of Compass and SetupScreen (src/app/index.tsx lines 174-178 and
\* 616-619), a simulated heading of 90.5 degrees and useCompass(0), a
\* non-positive update interval.
LifeOptions ==
    { ObjectOptions(100, "false", "true", Null),
      ObjectOptions(Null, "true", "true", Null),
      ObjectOptions(Null, "true", "true", 90 * TicksPerDeg + 1),
      NumberOptions(0) }

TwoOptions ==
    { ObjectOptions(100, "false", "true", Null),
      ObjectOptions(Null, "true", "true", Null) }

(***************************************************************************)
(* Spec: one hook instance on a device with a magnetometer, fed finite     *)
(* samples; the effect may re-run and the component may unmount.           *)
(***************************************************************************)
Init == InitWith(One, Devices)

Next ==
    \E i \in One :
        \/ \E o \in PipelineOptions : Mount(i, o)
        \/ \E r \in 1..MaxRuns : MagAvailableResolved(i, r)
        \/ \E r \in 1..MaxRuns : AccelAvailableSettled(i, r, env.accelAvailable)
        \/ /\ ticks[i] < MaxTicks
           /\ \E r \in 1..MaxRuns, a \in AccelSamples : AccelSample(i, r, a)
        \/ /\ ticks[i] < MaxTicks
           /\ \E r \in 1..MaxRuns, s \in FiniteMagSamples : MagSample(i, r, s)
        \/ /\ Len(runs[i]) < MaxRuns
           /\ \E o \in PipelineOptions : Rerender(i, o)
        \/ Unmount(i)

Spec == Init /\ [][Next]_vars

(***************************************************************************)
(* SpecFault: the same, fed samples some of which cannot be processed.     *)
(***************************************************************************)
NextFault ==
    \E i \in One :
        \/ \E o \in PipelineOptions : Mount(i, o)
        \/ \E r \in 1..MaxRuns : MagAvailableResolved(i, r)
        \/ \E r \in 1..MaxRuns : AccelAvailableSettled(i, r, env.accelAvailable)
        \/ /\ ticks[i] < MaxTicks
           /\ \E r \in 1..MaxRuns, a \in AccelSamples : AccelSample(i, r, a)
        \/ /\ ticks[i] < MaxTicks
           /\ \E r \in 1..MaxRuns, s \in FaultMagSamples : MagSample(i, r, s)
        \/ /\ Len(runs[i]) < MaxRuns
           /\ \E o \in PipelineOptions : Rerender(i, o)
        \/ Unmount(i)

SpecFault == Init /\ [][NextFault]_vars

(***************************************************************************)
(* SpecLife: the life cycle of one hook instance on any device: every      *)
(* interleaving of the asynchronous start-up with re-renders and unmount.  *)
(***************************************************************************)
InitLife == InitWith(One, AllDevices)

NextLife ==
    \E i \in One :
        \/ \E o \in LifeOptions : Mount(i, o)
        \/ \E r \in 1..LifeMaxRuns : MagAvailableResolved(i, r)
        \/ \E r \in 1..LifeMaxRuns : MagAvailableRejected(i, r)
        \/ \E r \in 1..LifeMaxRuns, a \in {env.accelAvailable, FALSE} :
              AccelAvailableSettled(i, r, a)
        \/ /\ ticks[i] < LifeMaxTicks
           /\ \E r \in 1..LifeMaxRuns, a \in LifeAccelSamples : AccelSample(i, r, a)
        \/ /\ ticks[i] < LifeMaxTicks
           /\ \E r \in 1..LifeMaxRuns, s \in LifeMagSamples : MagSample(i, r, s)
        \/ /\ Len(runs[i]) < LifeMaxRuns
           /\ \E o \in LifeOptions : Rerender(i, o)
        \/ Unmount(i)

SpecLife == InitLife /\ [][NextLife]_vars

(***************************************************************************)
(* SpecTwo: two hook instances active at once (the setup flow and the main *)
(* view), each with its own options and its own samples.                   *)
(***************************************************************************)
InitTwo == InitWith(Two, Devices)

NextTwo ==
    \E i \in Two :
        \/ \E o \in TwoOptions : Mount(i, o)
        \/ MagAvailableResolved(i, 1)
        \/ AccelAvailableSettled(i, 1, env.accelAvailable)
        \/ /\ ticks[i] < TwoMaxTicks
           /\ \E a \in LifeAccelSamples : AccelSample(i, 1, a)
        \/ /\ ticks[i] < TwoMaxTicks
           /\ \E s \in LifeMagSamples : MagSample(i, 1, s)
        \/ Unmount(i)

SpecTwo == InitTwo /\ [][NextTwo]_vars

(***************************************************************************)
(* SpecFeed: one subscription on a device whose magnetometer delivers a    *)
(* given sequence of samples (the feed), in order; the accelerometer, when *)
(* there is one, reports a level device.                                   *)
(***************************************************************************)
FeedMaxAccel == 2
SteadyLen == 10
LongLen == 62

\* Ten samples of about 45 micro-tesla whose flat heading goes from 0 to 90
\* degrees in steps of 10: (45 sin h, 45 cos h) to the nearest micro-tesla.
Sweep ==
    << <<0, 45, 0>>, <<8, 44, 0>>, <<15, 42, 0>>, <<23, 39, 0>>, <<29, 34, 0>>,
       <<34, 29, 0>>, <<39, 23, 0>>, <<42, 15, 0>>, <<44, 8, 0>>, <<45, 0, 0>> >>

\* A constant field of exactly 45 micro-tesla, pointing North.
Steady == [k \in 1..SteadyLen |-> <<0, 45, 0>>]

\* A constant field of exactly 45 micro-tesla whose direction alternates.
SteadyTurning == [k \in 1..SteadyLen |-> IF k % 2 = 0 THEN <<27, 36, 0>> ELSE <<36, 27, 0>>]

\* Three samples of 45 micro-tesla, then one of 210 (a magnet nearby).
NearMagnet == << <<0, 45, 0>>, <<0, 45, 0>>, <<0, 45, 0>>, <<0, 210, 0>> >>

\* More samples than the magnitude history holds, of 44, 45 and 46 micro-tesla.
Long == [k \in 1..LongLen |-> <<k % 2, 44 + (k % 3), 0>>]

\* A field pointing North whose x component is first -1e-16 times y, then 0,
\* and then a field pointing East.
Grazing == << <<MinusEps, 45, 0>>, <<0, 45, 0>>, <<45, 0, 0>> >>

Feeds == {Sweep, Steady, SteadyTurning, NearMagnet, Long, Grazing}

FeedDevices ==
    {[isSimulator |-> FALSE, magAvailable |-> TRUE, accelAvailable |-> a, feed |-> f] :
        a \in BOOLEAN, f \in Feeds}

FeedOptions ==
    { NoOptions,
      ObjectOptions(Null, "false", "false", Null),
      ObjectOptions(Null, "true", "true", Null) }

\* The number of magnetometer samples the subscription has processed.
Fed(i) == runs[i][1].emitted

InitFeed == InitWith(One, FeedDevices)

NextFeed ==
    \E i \in One :
        \/ \E o \in FeedOptions : Mount(i, o)
        \/ MagAvailableResolved(i, 1)
        \/ AccelAvailableSettled(i, 1, env.accelAvailable)
        \/ /\ Len(runs[i]) = 1
           /\ ticks[i] - Fed(i) < FeedMaxAccel
           /\ \E a \in LifeAccelSamples : AccelSample(i, 1, a)
        \/ /\ Len(runs[i]) = 1
           /\ Fed(i) < Len(env.feed)
           /\ MagSample(i, 1, env.feed[Fed(i) + 1])

SpecFeed == InitFeed /\ [][NextFeed]_vars

(***************************************************************************)
(* SpecTurn: one subscription on a device with an accelerometer whose      *)
(* magnetometer delivers three samples pointing North and then turns East  *)
(* or South at once, while the device lies flat, is tilted by about 20     *)
(* degrees or by about 37 degrees.                                         *)
(***************************************************************************)
TurnLen == 9
TurnAt == 3
TurnMaxAccel == 2

TurnEast == [k \in 1..TurnLen |-> IF k <= TurnAt THEN <<0, 45, 0>> ELSE <<45, 0, 0>>]

TurnSouth == [k \in 1..TurnLen |-> IF k <= TurnAt THEN <<0, 45, 0>> ELSE <<0, -45, 0>>]

TurnDevices ==
    {[isSimulator |-> FALSE, magAvailable |-> TRUE, accelAvailable |-> TRUE, feed |-> f] :
        f \in {TurnEast, TurnSouth}}

\* Gravity in hundredths of g: flat, rolled by 19.9 and by 36.9 degrees.
TurnAccelSamples == { <<0, 0, 100>>, <<0, 34, 94>>, <<0, 60, 80>> }

InitTurn == InitWith(One, TurnDevices)

NextTurn ==
    \E i \in One :
        \/ \E o \in FeedOptions : Mount(i, o)
        \/ MagAvailableResolved(i, 1)
        \/ AccelAvailableSettled(i, 1, env.accelAvailable)
        \/ /\ Len(runs[i]) = 1
           /\ ticks[i] - Fed(i) < TurnMaxAccel
           /\ \E a \in TurnAccelSamples : AccelSample(i, 1, a)
        \/ /\ Len(runs[i]) = 1
           /\ Fed(i) < Len(env.feed)
           /\ MagSample(i, 1, env.feed[Fed(i) + 1])

SpecTurn == InitTurn /\ [][NextTurn]_vars

(***************************************************************************)
(* SpecSim: one hook instance in a simulator, given any simulated heading  *)
(* of the half-degree grid.                                                *)
(***************************************************************************)
Simulators == {[isSimulator |-> TRUE, magAvailable |-> FALSE, accelAvailable |-> FALSE]}

SimHeadings == 0..(FullTurn - 1)

SimOptions == {ObjectOptions(Null, "undefined", "undefined", h) : h \in SimHeadings}

InitSim == InitWith(One, Simulators)

NextSim ==
    \E i \in One :
        \/ \E o \in SimOptions : Mount(i, o)
        \/ Unmount(i)

SpecSim == InitSim /\ [][NextSim]_vars

(***************************************************************************)
(* The application's inputs: a simulator, or a device whose magnetometer   *)
(* delivers a scripted feed to the hook of SetupScreen.                    *)
(***************************************************************************)
AppHooks == 1..MaxSetups

\* The 16 directions of a figure of eight, each in an orientation region of
\* its own, then the device at rest pointing north, then turned twice.
Figure8 ==
    << <<30, 0, 0>>, <<30, 30, 0>>, <<0, 30, 0>>, <<-30, 30, 0>>,
       <<-30, 0, 0>>, <<-30, -30, 0>>, <<0, -30, 0>>, <<30, -30, 0>>,
       <<30, 0, 30>>, <<30, 30, 30>>, <<0, 30, 30>>, <<-30, 30, 30>>,
       <<-30, 0, 30>>, <<-30, -30, 30>>, <<0, -30, 30>>, <<30, -30, 30>> >>

RestLen == 26

AtRest == [k \in 1..RestLen |-> IF k % 8 = 0 THEN <<27, 36, 0>> ELSE <<0, 45, 0>>]

\* line 175: updateInterval 100, five callbacks in a unit of time.
SamplesPerUnit == 5

\* The times at which the samples of a feed are ready: one every 100 ms, and
\* after the first pauseAt samples a pause of pauseLen units.
Arrivals(f, pauseAt, pauseLen) ==
    [k \in 1..Len(f) |->
        (k - 1) \div SamplesPerUnit + (IF k > pauseAt THEN pauseLen ELSE 0)]

PauseAt == 30
PauseLen == 11

AppFeed == Figure8 \o AtRest

Later == SubSeq(Figure8, 1, 3)

RealDevices ==
    { [isSimulator |-> FALSE, magAvailable |-> TRUE, accelAvailable |-> FALSE,
       feed |-> AppFeed, times |-> Arrivals(AppFeed, Len(AppFeed), 0), later |-> Later],
      [isSimulator |-> FALSE, magAvailable |-> TRUE, accelAvailable |-> FALSE,
       feed |-> AppFeed \o AtRest, times |-> Arrivals(AppFeed \o AtRest, PauseAt, PauseLen),
       later |-> Later] }

AppDevices ==
    { [isSimulator |-> TRUE, magAvailable |-> FALSE, accelAvailable |-> FALSE,
       feed |-> <<>>, times |-> <<>>, later |-> <<>>],
      [isSimulator |-> FALSE, magAvailable |-> TRUE, accelAvailable |-> FALSE,
       feed |-> AppFeed, times |-> Arrivals(AppFeed, Len(AppFeed), 0), later |-> Later] }

\* The system colour scheme is unset at first and may change to light.
LaterSchemes == {"light"}

\* The storage of a first launch, of a setup completed by an earlier version
\* (the flip false or missing), and of a completed setup.
Storages ==
    { EmptyStorage,
      [setupComplete |-> "true", axisFlip |-> "false", theme |-> "null"],
      [setupComplete |-> "true", axisFlip |-> "null", theme |-> "light"],
      [setupComplete |-> "true", axisFlip |-> "true", theme |-> "dark"] }

\* The samples the magnetometer has for hook instance i: the feed for the
\* first SetupScreen, and for a later one a few samples, ready at once.
FeedOf(i) == IF i = 1 THEN env.feed ELSE env.later

ReadyAt(i, k) == IF i = 1 THEN env.times[k] ELSE 0

\* The magnetometer has a sample ready for the listener of hook instance i.
SampleReady(i) ==
    /\ Len(runs[i]) = 1
    /\ MagAttached(runs[i][1])
    /\ Len(timers) < MaxPending
    /\ ticks[i] < Len(FeedOf(i))
    /\ ReadyAt(i, ticks[i] + 1) <= now

\* SetupScreen has yet to render with the last estimate of hook instance i.
RenderDue(i) ==
    setup.mounted /\ setup.hook = i /\ Len(runs[i]) = 1 /\ setup.seen # Fed(i)

\* The promises of the storage and of the availability checks are settled and
\* the hook of SetupScreen has followed its mounting and unmounting.
Settled(insts) ==
    /\ \A k \in 1..Len(screen.loads) : screen.loads[k].pc = "done"
    /\ \A k \in 1..Len(screen.saves) : screen.saves[k].pc = "done"
    /\ \A i \in insts :
          /\ phase[i] = "new" => ~(setup.mounted /\ setup.hook = i)
          /\ phase[i] = "mounted" =>
                /\ setup.mounted /\ setup.hook = i
                /\ runs[i][Current(i)].pc \notin {"awaitMag", "awaitAccel"}

\* Something waits for the clock: a timer, or a listener for its next sample.
Awaited(insts) ==
    \/ timers # <<>>
    \/ \E i \in insts : /\ Len(runs[i]) = 1
                        /\ MagAttached(runs[i][1])
                        /\ ticks[i] < Len(FeedOf(i))

\* Time passes once the promises are settled and the samples that are ready
\* are delivered and rendered; a timer runs at most late units after it is due.
TimePasses(insts, late) ==
    /\ Awaited(insts)
    /\ Settled(insts)
    /\ \A i \in insts : ~SampleReady(i) /\ ~RenderDue(i)
    /\ \A k \in 1..Len(timers) : now < timers[k].due + late
    /\ Tick

\* SetupScreen is between its first and its last step.
Measuring == setup.mounted /\ setup.step \in {"calibrating", "axis-check"}

\* The user presses Start Setup within startBy units.
StartsBy(startBy) == now <= startBy /\ HandleStart

\* The hook of SetupScreen instance i: its effect, its sensor callbacks in the
\* order of the feed, each followed by the render of SetupScreen, and its
\* cleanup once SetupScreen is gone.
SetupHook(i) ==
    \/ /\ setup.mounted
       /\ setup.hook = i
       /\ Mount(i, SetupOptions)
    \/ MagAvailableResolved(i, 1)
    \/ AccelAvailableSettled(i, 1, env.accelAvailable)
    \/ /\ SampleReady(i)
       /\ ~RenderDue(i)
       /\ MagSample(i, 1, FeedOf(i)[ticks[i] + 1])
    \/ DataChanged(i)
    \/ /\ ~(setup.mounted /\ setup.hook = i)
       /\ Unmount(i)

(***************************************************************************)
(* SpecSetup: a first launch on a device, through the guided setup, with   *)
(* every interleaving of the sensor callbacks, the timers and the clock.   *)
(***************************************************************************)
InitSetup ==
    /\ HooksConstructed(One, RealDevices)
    /\ AppConstructed({"null"}, {EmptyStorage})

NextSetup ==
    \/ ScreenMount
    \/ \E k \in 1..MaxLoads : MultiGetServed(k)
    \/ \E k \in 1..MaxLoads : LoadResolved(k)
    \/ StartsBy(StartBy)
    \/ HandleComplete
    \/ \E k \in 1..MaxCompletes : SetupSaved(k)
    \/ TimePasses(One, MaxLate)
    \/ \E k \in 1..MaxPending : TimerFires(k)
    \/ \E i \in One : SetupHook(i)

SpecSetup == InitSetup /\ [][NextSetup]_vars

(***************************************************************************)
(* SpecApp: CompassScreen on a simulator or a device, from every storage,  *)
(* with every interleaving of the storage's answers, the buttons, the      *)
(* changes of the system colour scheme and the setup, whose timers run     *)
(* when they are due.                                                      *)
(***************************************************************************)
InitApp ==
    /\ HooksConstructed(AppHooks, AppDevices)
    /\ AppConstructed({"null"}, Storages)

NextApp ==
    \/ ScreenMount
    \/ /\ ~Measuring
       /\ \E sys \in LaterSchemes : ColorSchemeChanged(sys)
    \/ \E k \in 1..MaxLoads : MultiGetServed(k)
    \/ \E k \in 1..MaxLoads : LoadResolved(k)
    \/ \E k \in 1..MaxLoads : MigrationSaved(k)
    \/ StartsBy(0)
    \/ HandleComplete
    \/ \E k \in 1..MaxCompletes : SetupSaved(k)
    \/ /\ storage.theme = "null"
       /\ HandleToggleTheme
    \/ ResetOnboarding
    \/ TimePasses(AppHooks, 0)
    \/ \E k \in 1..MaxPending : TimerFires(k)
    \/ \E i \in AppHooks : SetupHook(i)

SpecApp == InitApp /\ [][NextApp]_vars

(***************************************************************************)
(* SpecDeploy: the deploy tool and the workflows of its library, every     *)
(* command exiting with success or with failure.                           *)
(***************************************************************************)
DeployHost == {[isSimulator |-> FALSE, magAvailable |-> FALSE, accelAvailable |-> FALSE]}

CommandFiles == {"commands.ts", "part_000"}

FullActions == {"full-ios", "full-android"}

InitDeploy == InitWith(One, DeployHost)

NextDeploy ==
    \/ \E file \in CommandFiles : fullIOSDeploy(file)
    \/ \E file \in CommandFiles : fullAndroidDeploy(file)
    \/ \E k \in 1..MaxDeploys, success \in BOOLEAN : RunCommandResolves(k, success)
    \/ \E action \in FullActions : executeAction(action)
    \/ \E k \in 1..MaxDeploys, success \in BOOLEAN : StreamingResolves(k, success)
    \/ DelayedComplete
    \/ Escape

SpecDeploy == InitDeploy /\ [][NextDeploy]_vars

(***************************************************************************)
(* Properties.                                                             *)
(***************************************************************************)
HasData(st) == DOMAIN st.data # {}

Ended == {"simulated", "cancelled", "unavailable", "failed", "listening"}

\* C1: in every estimate emitted by useCompass the integer heading satisfies
\* 0 <= heading < 360; 360 itself is never emitted.
C1_HeadingBelow360 ==
    \A i \in DOMAIN state :
        HasData(state[i]) => state[i].data.heading \in 0..359

C3_UnprocessableSkipped ==
    [][\A i \in One, r \in 1..MaxRuns, s \in Unprocessable :
          MagSample(i, r, s) => UNCHANGED <<state, refs>>]_vars

\* C4: for every interleaving of a subscription's asynchronous start-up with
\* its disposal, once both have finished every listener the subscription
\* added has had remove() called exactly once.
C4_ListenersReleased ==
    \A i \in DOMAIN runs : \A r \in 1..Len(runs[i]) :
        (~runs[i][r].isMounted /\ runs[i][r].pc \in Ended) =>
            /\ runs[i][r].magAdded => runs[i][r].magRemoves = 1
            /\ runs[i][r].accelAdded => runs[i][r].accelRemoves = 1

\* A step of the subscription r of instance i: its start-up or a callback.
SubscriptionStep(i, r) ==
    \/ MagAvailableResolved(i, r)
    \/ MagAvailableRejected(i, r)
    \/ \E a \in BOOLEAN : AccelAvailableSettled(i, r, a)
    \/ \E a \in LifeAccelSamples : AccelSample(i, r, a)
    \/ \E s \in LifeMagSamples : MagSample(i, r, s)

\* C5: once a subscription's cleanup has run, no step of that subscription
\* changes the consumer-visible CompassState.
C5_DisposedIsSilent ==
    [][\A i \in One, r \in 1..LifeMaxRuns :
          (/\ r \in 1..Len(runs[i])
           /\ ~runs[i][r].isMounted
           /\ SubscriptionStep(i, r)) => state'[i] = state[i]]_vars

\* C6: a subscription that has not yet emitted starts from fresh engine
\* state: an empty smoothing window, an empty magnitude history, unset EMAs
\* and no previous heading.
C6_FreshEngineState ==
    \A i \in DOMAIN runs :
        (/\ Len(runs[i]) > 0
         /\ runs[i][Current(i)].isMounted
         /\ runs[i][Current(i)].emitted = 0) =>
            /\ refs[i].smoothingFilter = <<>>
            /\ refs[i].magHistoryRef = <<>>
            /\ refs[i].emaMagRef = Null
            /\ refs[i].displayAccRef = 0
            /\ refs[i].prevHeadingRef = Null

\* C7: a subscription that found the magnetometer unavailable has registered
\* no listener and emitted no estimate, and it leaves the state data = null,
\* isAvailable = false, isLoading = false with a non-empty error string.
C7_UnavailableEndsInError ==
    \A i \in DOMAIN runs : \A r \in 1..Len(runs[i]) :
        runs[i][r].pc = "unavailable" =>
            /\ ~runs[i][r].magAdded
            /\ ~runs[i][r].accelAdded
            /\ runs[i][r].emitted = 0
            /\ r = Current(i) =>
                  /\ ~HasData(state[i])
                  /\ ~state[i].isAvailable
                  /\ ~state[i].isLoading
                  /\ state[i].error \notin {"null", ""}

\* C7's case: the current subscription has ended on the unavailable branch.
C7_Witness ==
    \E i \in DOMAIN runs :
        /\ Len(runs[i]) > 0
        /\ runs[i][Current(i)].pc = "unavailable"
        /\ ~env.magAvailable

\* C8: a subscription started with a non-positive update interval registers
\* no listener and emits no estimate, it reports an error once its start-up
\* has ended, and the interval is never passed on to the sensor.
C8_NonPositiveIntervalRejected ==
    /\ sensors.magInterval = Null \/ sensors.magInterval > 0
    /\ sensors.accelInterval = Null \/ sensors.accelInterval > 0
    /\ \A i \in DOMAIN runs : \A r \in 1..Len(runs[i]) :
          runs[i][r].deps.updateMs <= 0 =>
              /\ ~runs[i][r].magAdded
              /\ ~runs[i][r].accelAdded
              /\ runs[i][r].emitted = 0
              /\ (r = Current(i) /\ runs[i][r].isMounted /\ runs[i][r].pc \in Ended) =>
                    state[i].error # "null"

\* The part of the state that belongs to the hook instance i.
Slice(i) == <<phase[i], state[i], refs[i], runs[i], ticks[i]>>

\* C9: two simultaneously active instances share no mutable engine state: a
\* step in which one instance acts (mounts, starts up, processes a sample,
\* unmounts) leaves the other's estimate, engine state and subscriptions
\* unchanged.
C9_InstancesIndependent ==
    [][\A i \in Two : \A j \in Two \ {i} :
          Slice(j)' # Slice(j) => Slice(i)' = Slice(i)]_vars

\* C9's case: both instances are listening at once and each has emitted
\* estimates from its own samples, which differ.
C9_Witness ==
    /\ \A i \in Two : /\ phase[i] = "mounted"
                      /\ runs[i][Current(i)].emitted = TwoMaxTicks
    /\ state[1].data.heading # state[2].data.heading
    /\ refs[1].smoothingFilter # refs[2].smoothingFilter

\* The estimate of simulation mode for the simulated heading h (in ticks).
IsFixedEstimate(data, h) ==
    /\ data.heading = RoundDeg(h)
    /\ data.rotationDeg = h
    /\ data.accuracy = 100
    /\ data.isCalibrated
    /\ data.isLevel = "true"
    /\ data.tiltDeg = 0

\* The subscription r of instance i bypassed the pipeline.
Bypassed(i, r) ==
    /\ runs[i][r].pc = "simulated"
    /\ ~runs[i][r].magAdded
    /\ ~runs[i][r].accelAdded
    /\ runs[i][r].emitted = 1
    /\ r = Current(i) =>
          /\ HasData(state[i])
          /\ IsFixedEstimate(state[i].data, runs[i][r].deps.simulatedHeading)

\* C10 (as stated): a subscription configured with a simulated heading
\* bypasses the whole pipeline: no sensor listener, one fixed estimate with
\* accuracy 100, isCalibrated, isLevel, tilt 0, heading the rounded simulated
\* heading and rotationDeg the simulated heading.
C10_SimulatedBypasses ==
    \A i \in DOMAIN runs : \A r \in 1..Len(runs[i]) :
        runs[i][r].deps.simulatedHeading # Null => Bypassed(i, r)

\* C10 (amended): a subscription configured with a simulated heading while
\* running in a simulator (isSimulator) bypasses the whole pipeline: no
\* sensor listener, one fixed estimate with accuracy 100, isCalibrated,
\* isLevel, tilt 0, heading the rounded simulated heading and rotationDeg the
\* simulated heading.
C10_SimulatedBypassesInSimulator ==
    \A i \in DOMAIN runs : \A r \in 1..Len(runs[i]) :
        (env.isSimulator /\ runs[i][r].deps.simulatedHeading # Null) =>
            Bypassed(i, r)

\* C10's case: in a simulator, the current subscription has a simulated
\* heading of 90.5 degrees and the consumer sees its estimate, heading 91.
C10_Witness ==
    \E i \in DOMAIN runs :
        /\ env.isSimulator
        /\ Len(runs[i]) > 0
        /\ runs[i][Current(i)].deps.simulatedHeading = 90 * TicksPerDeg + 1
        /\ HasData(state[i])
        /\ state[i].data.heading = 91

\* C11: in every emitted estimate, isCalibrated is true exactly when the
\* estimate's accuracy field (the emitted integer) is greater than 60.
C11_CalibratedIffAbove60 ==
    \A i \in DOMAIN state :
        HasData(state[i]) =>
            (state[i].data.isCalibrated <=> state[i].data.accuracy > 60)

\* The step is a magnetometer callback of a mounted run of instance i that
\* processed its sample: the run has emitted one more estimate.
Processed(i) ==
    /\ Len(runs'[i]) = Len(runs[i])
    /\ \E r \in 1..Len(runs[i]) : runs'[i][r].emitted = runs[i][r].emitted + 1

\* C12: for every processed sample after the first of an engine, the change
\* of rotationDeg and the shortest angular distance between the previous and
\* the new unrounded heading are at most the maxStep chosen for that sample:
\* never more than 45 degrees, never more than 20 when accuracy < 50 and
\* never more than 10 when the device is level.
C12_StepWithinLimit ==
    [][\A i \in One :
          (/\ Processed(i)
           /\ refs[i].prevHeadingRef # Null) =>
              LET tilt == TiltMetrics(refs[i].latestAccelRef)
                  limit == MaxStep(refs'[i].displayAccRef, tilt)
                  turn == refs'[i].rotationAccumRef - refs[i].rotationAccumRef
                  moved == ShortestDelta(refs'[i].prevHeadingRef, refs[i].prevHeadingRef)
              IN  /\ Abs(turn) <= limit
                  /\ Abs(moved) <= limit
                  /\ Abs(turn) <= 45 * TicksPerDeg
                  /\ refs'[i].displayAccRef < 50 * Centi => Abs(turn) <= 20 * TicksPerDeg
                  /\ tilt.isLevel = "true" => Abs(turn) <= 10 * TicksPerDeg
                  /\ phase[i] = "mounted" =>
                        state'[i].data.rotationDeg = refs'[i].rotationAccumRef]_vars

\* C12's case: the limiter has acted on a level device: the heading kept
\* after the last sample is not the circular mean of the window.
C12_Witness ==
    \E i \in DOMAIN refs :
        /\ HasData(state[i])
        /\ state[i].data.isLevel = "true"
        /\ Len(refs[i].smoothingFilter) >= 2
        /\ refs[i].prevHeadingRef # CircularMean(refs[i].smoothingFilter)

\* The sequence new is old with one value added at the end, the oldest
\* value dropped when old already held cap values.
IsPushed(old, new, cap) ==
    /\ Len(new) = Min2(Len(old) + 1, cap)
    /\ \A k \in 1..(Len(new) - 1) : new[k] = old[k + Len(old) + 1 - Len(new)]

\* C13: after any sequence of samples the smoothing window holds at most 8
\* headings and the magnitude history at most 60 magnitudes, each exactly the
\* most recently added values in arrival order: a sample adds its raw heading
\* and its magnitude at the end and, when full, evicts exactly the oldest.
C13_BoundedFifo ==
    [][\A i \in One :
          (/\ Len(runs[i]) = 1
           /\ Fed(i) < Len(env.feed)
           /\ MagSample(i, 1, env.feed[Fed(i) + 1])) =>
              LET s == env.feed[Fed(i) + 1]
              IN  /\ IsPushed(refs[i].smoothingFilter, refs'[i].smoothingFilter, 8)
                  /\ IsPushed(refs[i].magHistoryRef, refs'[i].magHistoryRef, 60)
                  /\ refs'[i].magHistoryRef[Len(refs'[i].magHistoryRef)] =
                        Magnitude(s[1], s[2], s[3])
                  /\ refs'[i].smoothingFilter[Len(refs'[i].smoothingFilter)] =
                        RawHeading(s[1], s[2], s[3], refs[i].latestAccelRef,
                                   runs[i][1].deps.useCross, runs[i][1].deps.axisFlipEW)]_vars

\* C13's case: more samples were processed than the history holds, so both
\* the window and the history are full and have evicted values.
C13_Witness ==
    \E i \in DOMAIN refs :
        /\ Len(runs[i]) = 1
        /\ Fed(i) = LongLen
        /\ Len(refs[i].magHistoryRef) = 60
        /\ Len(refs[i].smoothingFilter) = 8
        /\ refs[i].magHistoryRef[1] # refs[i].magHistoryRef[60]

\* C14: for every finite magnetometer vector, with or without an
\* accelerometer vector and for both fusion strategies, the raw heading handed
\* to the smoother is in [0,360), also after the axis flip; the flip maps 0 to
\* 0 and applied twice returns the original heading; the flat-device formula
\* gives 0 for (0,1,0) and 90 for (1,0,0).
C14_RawHeadingInRange ==
    /\ \A i \in DOMAIN refs : \A k \in 1..Len(refs[i].smoothingFilter) :
          refs[i].smoothingFilter[k] \in 0..(FullTurn - 1)
    /\ AxisFlip(0, TRUE) = 0
    /\ \A h \in 0..(FullTurn - 1) : AxisFlip(AxisFlip(h, TRUE), TRUE) = h
    /\ calculateHeading(0, 1, 0) = 0
    /\ calculateHeading(1, 0, 0) = 90 * TicksPerDeg

\* The eight directions in clockwise order from North.
DirectionNames ==
    << <<"North", "N">>, <<"Northeast", "NE">>, <<"East", "E">>,
       <<"Southeast", "SE">>, <<"South", "S">>, <<"Southwest", "SW">>,
       <<"West", "W">>, <<"Northwest", "NW">> >>

\* The sector of a heading h in ticks, 0 <= h < 720: 1 (North) for h >= 337.5
\* or h <= 22.5 degrees, else the 45-degree sector [min, max) that holds h.
SectorOf(h) ==
    IF h >= 675 \/ h <= 45 THEN 1 ELSE 1 + (h + 45) \div 90

\* C15: getCardinalDirection is total and unambiguous on [0,360): every
\* heading maps to exactly one of the eight directions, North for heading >=
\* 337.5 or heading <= 22.5 (both included), every other direction for its
\* half-open sector [min, max).
C15_CardinalSectors ==
    \A i \in DOMAIN runs : \A r \in 1..Len(runs[i]) :
        (r = Current(i) /\ runs[i][r].pc = "simulated") =>
            LET h == runs[i][r].deps.simulatedHeading
            IN  /\ h \in SimHeadings
                /\ SectorOf(h) \in 1..8
                /\ << state[i].data.cardinalDirection,
                      state[i].data.cardinalAbbreviation >> = DirectionNames[SectorOf(h)]
                /\ Cardinality({k \in 1..8 :
                       DirectionNames[k][1] = getCardinalDirection(h).name}) = 1

\* C15's case: the estimate for the boundary heading 22.5 degrees, which
\* both North's and Northeast's entries match, says North.
C15_Witness ==
    \E i \in DOMAIN runs :
        /\ Len(runs[i]) > 0
        /\ runs[i][Current(i)].pc = "simulated"
        /\ runs[i][Current(i)].deps.simulatedHeading = 45
        /\ state[i].data.cardinalDirection = "North"
        /\ DirectionMatches(CARDINAL_DIRECTIONS[2], 45)

\* C16: a fresh engine fed 10 samples whose raw heading sweeps linearly from
\* 0 to 90 degrees, at constant field magnitude 45 and zero tilt (level
\* device), ends with a smoothed heading within 5 degrees of 90, accuracy >
\* 80 and isLevel = true.
C16_SweepEndsAtEast ==
    \A i \in DOMAIN runs :
        (/\ env.feed = Sweep
         /\ Len(runs[i]) = 1
         /\ ~runs[i][1].deps.axisFlipEW
         /\ Fed(i) = Len(Sweep)
         /\ refs[i].latestAccelRef # <<>>) =>
            /\ Abs(refs[i].prevHeadingRef - 90 * TicksPerDeg) <= 5 * TicksPerDeg
            /\ state[i].data.accuracy > 80
            /\ state[i].data.isLevel = "true"

\* C17: with a constant field magnitude of 45, no magnitude variation and
\* tilt 0, the combined raw score is 100 on every sample, each update closes a
\* quarter of the remaining gap between the smoothed accuracy and 100, and the
\* emitted accuracy never decreases and is at least 90 from the eighth sample.
C17_AccuracyClimbs ==
    [][\A i \in One :
          (/\ env.feed \in {Steady, SteadyTurning}
           /\ Len(runs[i]) = 1
           /\ Fed(i) < Len(env.feed)
           /\ MagSample(i, 1, env.feed[Fed(i) + 1])) =>
              LET before == refs[i].displayAccRef
                  after == refs'[i].displayAccRef
              IN  /\ CombinedScore(FieldScore(refs'[i].emaMagRef),
                                   VarianceScore(StdDev(refs'[i].magHistoryRef)),
                                   TiltScore(TiltMetrics(refs[i].latestAccelRef).tiltDeg))
                        = 100 * Centi
                  /\ Abs(4 * (after - before) - (100 * Centi - before)) <= 2
                  /\ HasData(state[i]) =>
                        state'[i].data.accuracy >= state[i].data.accuracy
                  /\ Fed(i) + 1 >= 8 => state'[i].data.accuracy >= 90]_vars

\* C17's case: ten samples of exactly 45 micro-tesla on a level device; the
\* accuracy has climbed to 94.
C17_Witness ==
    \E i \in DOMAIN runs :
        /\ env.feed = Steady
        /\ Len(runs[i]) = 1
        /\ Fed(i) = SteadyLen
        /\ state[i].data.isLevel = "true"
        /\ state[i].data.tiltDeg = 0
        /\ refs[i].emaMagRef = 45 * Centi
        /\ state[i].data.accuracy = 94


(***************************************************************************)
(* C18: whenever the guided setup calls onComplete, it calls it with true, *)
(* whatever headings the axis check sampled: every call recorded by        *)
(* CompassScreen carries detectedFlip = true, and a SetupScreen at the     *)
(* complete step holds detectedFlip = true.                                *)
(***************************************************************************)
C18_SetupConcludesFlip ==
    /\ \A k \in 1..Len(screen.saves) : screen.saves[k].detectedFlip
    /\ (setup.mounted /\ setup.step = "complete") => setup.detectedFlip

\* onComplete has been called after an axis check that sampled two different
\* headings.
C18_Witness ==
    /\ Len(screen.saves) >= 1
    /\ Len(setup.axisCheckSamples) >= AxisSamplesNeeded
    /\ \E j, k \in 1..Len(setup.axisCheckSamples) :
          setup.axisCheckSamples[j].heading # setup.axisCheckSamples[k].heading

(***************************************************************************)
(* C19: whenever CompassScreen renders Compass, the axisFlipEW it hands to *)
(* it is true.                                                             *)
(***************************************************************************)
C19_FlipAlwaysApplied ==
    Rendered(screen) = "compass" => CompassProps(screen).axisFlipEW

\* Compass is rendered after a load that found a completed setup without the
\* flip and, later in the same session, after a setup that was just completed.
C19_Witness ==
    /\ Rendered(screen) = "compass"
    /\ \E k \in 1..Len(screen.loads) :
          /\ screen.loads[k].pc = "done"
          /\ screen.loads[k].values.setupComplete = "true"
          /\ screen.loads[k].values.axisFlip = "false"
    /\ \E k \in 1..Len(screen.saves) : screen.saves[k].pc = "done"

(***************************************************************************)
(* C20: the step of a SetupScreen only advances in the order welcome,      *)
(* calibrating, axis-check, complete: every change of the step goes to the *)
(* next step.                                                              *)
(***************************************************************************)
NextStep ==
    { <<"welcome", "calibrating">>, <<"calibrating", "axis-check">>,
      <<"axis-check", "complete">> }

C20_StepsInOrder ==
    [][(setup.mounted /\ setup'.mounted /\ setup'.hook = setup.hook
          /\ setup'.step # setup.step)
       => <<setup.step, setup'.step>> \in NextStep]_vars

\* The setup is complete while timers it scheduled are still pending.
C20_Witness ==
    /\ setup.mounted
    /\ setup.step = "complete"
    /\ Len(timers) >= 2
    /\ \A k \in 1..Len(timers) : timers[k].owner = setup.hook

\* C21: for every processed sample, the heading kept is the one the limiter
\* rule gives: maxStep is 45 degrees, 20 when the smoothed accuracy is below
\* 50, then at most 10 when the device is level, otherwise at most 15 when
\* the tilt is known and below 25 degrees; when |delta| > maxStep the heading
\* is normalize(prev + sign(delta) * maxStep), otherwise the smoothed heading
\* unchanged.  With prev = 0, new = 170, accuracy = 70 and a tilt of 30
\* degrees the result is 45, and 10 with the device level.
C21_StepLimiterRule ==
    [][\A i \in One :
          Processed(i) =>
              LET tilt == TiltMetrics(refs[i].latestAccelRef)
                  accuracy == refs'[i].displayAccRef
                  smoothedHeading == CircularMean(refs'[i].smoothingFilter)
                  prev == refs[i].prevHeadingRef
                  base == IF accuracy < 50 * Centi THEN 20 ELSE 45
                  maxStep == IF tilt.isLevel = "true" THEN Min2(base, 10)
                             ELSE IF tilt.tiltDeg # Null /\ tilt.tiltDeg < 25 * TicksPerDeg
                                  THEN Min2(base, 15)
                             ELSE base
                  delta == ShortestDelta(smoothedHeading, prev)
              IN  /\ ~IsNaN(accuracy)
                  /\ refs'[i].prevHeadingRef =
                        IF prev # Null /\ Abs(delta) > maxStep * TicksPerDeg
                        THEN Normalize360(prev + Sign(delta) * maxStep * TicksPerDeg)
                        ELSE smoothedHeading
                  /\ StepLimit(170 * TicksPerDeg, 0,
                               MaxStep(70 * Centi, TiltRecord(0, 30 * TicksPerDeg)))
                        = 45 * TicksPerDeg
                  /\ StepLimit(170 * TicksPerDeg, 0, MaxStep(70 * Centi, TiltRecord(0, 0)))
                        = 10 * TicksPerDeg]_vars

\* C21's case: on a device tilted by less than 25 degrees and not level,
\* with an accuracy of at least 50, the limiter has moved the heading by
\* exactly 15 degrees towards a smoothed heading further away.
C21_Witness ==
    \E i \in DOMAIN refs :
        /\ HasData(state[i])
        /\ state[i].data.isLevel = "false"
        /\ state[i].data.tiltDeg < 25 * TicksPerDeg
        /\ refs[i].displayAccRef >= 50 * Centi
        /\ Len(refs[i].smoothingFilter) >= 2
        /\ refs[i].prevHeadingRef # CircularMean(refs[i].smoothingFilter)
        /\ refs[i].rotationAccumRef = 15 * TicksPerDeg

\* C22: on the first sample a subscription (an engine) processes, the
\* rotation accumulator is set to the heading itself; on every later sample
\* it is increased by the shortest signed delta between the limited new
\* heading and the previous one, so that headings 350 then 10 add +20 and
\* never -340.
C22_AccumulatorRule ==
    [][\A i \in One :
          Processed(i) =>
              \A r \in 1..Len(runs[i]) :
                  runs'[i][r].emitted = runs[i][r].emitted + 1 =>
                      /\ ShortestDelta(10 * TicksPerDeg, 350 * TicksPerDeg)
                            = 20 * TicksPerDeg
                      /\ refs'[i].rotationAccumRef =
                            IF runs[i][r].emitted = 0
                            THEN refs'[i].prevHeadingRef
                            ELSE refs[i].rotationAccumRef
                                   + ShortestDelta(refs'[i].prevHeadingRef,
                                                   refs[i].prevHeadingRef)]_vars

\* C23: during calibration every region key is one of the 27 triples of
\* {0, 1, 2}^3 and the set of visited regions never has more than 27
\* elements, vectors lying exactly along an axis included.
C23_RegionKeysInGrid ==
    /\ \A key \in setup.orientationRegions :
          \A axis \in 1..3 : key[axis] \in {0, 1, 2}
    /\ Cardinality(setup.orientationRegions) <= 27

\* Twenty samples of 40 and 60 micro-tesla by turns: a standard deviation of
\* 10 around the mean of 50.
SpreadOfTen ==
    [k \in 1..20 |-> [x |-> IF k % 2 = 0 THEN 40 ELSE 60, y |-> 0, z |-> 0, time |-> 0]]

SchedulesAxisCheck ==
    /\ Len(timers') > Len(timers)
    /\ timers'[Len(timers')].to = "axis-check"

\* C25: the transition from calibrating to axis-check is scheduled only with
\* progress >= 85 and at least 15 regions visited: never with fewer than 15
\* regions, with exactly 15 regions only when the variance bonus is awarded,
\* and with 16 or more regions whatever the magnitude variance; the setup
\* leaves calibrating for axis-check only by a timer so scheduled that is
\* due, with at least 15 regions visited.
C25_TransitionGuard ==
    [][/\ SchedulesAxisCheck =>
            /\ setup'.step = "calibrating"
            /\ setup'.calibrationProgress >= 85 * Centi
            /\ Cardinality(setup'.orientationRegions) >= 15
            /\ Cardinality(setup'.orientationRegions) = 15 =>
                  SetupVarianceScore(setup'.magSamples) = SpreadBonus
       /\ (/\ setup'.mounted
           /\ setup'.step = "calibrating"
           /\ setup'.magSamples # setup.magSamples
           /\ Cardinality(setup'.orientationRegions) >= 16) => SchedulesAxisCheck
       /\ (/\ setup.step = "calibrating"
           /\ setup'.step = "axis-check") =>
              /\ Cardinality(setup.orientationRegions) >= 15
              /\ setup'.hook = setup.hook
              /\ \E k \in 1..Len(timers) :
                    /\ timers[k].to = "axis-check"
                    /\ timers[k].owner = setup.hook
                    /\ timers[k].due <= now]_vars

\* C25's case: the setup is at axis-check with exactly 15 regions visited.
C25_Witness ==
    /\ setup.mounted
    /\ setup.step = "axis-check"
    /\ Cardinality(setup.orientationRegions) = 15

\* C26: after every processed sample, rotationDeg is the accumulator and is
\* congruent modulo 360 to the unrounded step-limited heading of that
\* sample, over any sequence of finite samples.
C26_RotationCongruent ==
    \A i \in DOMAIN refs :
        (HasData(state[i]) /\ refs[i].prevHeadingRef # Null) =>
            /\ state[i].data.rotationDeg = refs[i].rotationAccumRef
            /\ ~IsNaN(refs[i].rotationAccumRef)
            /\ (refs[i].rotationAccumRef - refs[i].prevHeadingRef) % FullTurn = 0
            /\ RoundDeg(refs[i].prevHeadingRef) = state[i].data.heading

\* C26's case: the heading has wrapped, and the accumulator is a full turn
\* away from it.
C26_Witness ==
    \E i \in DOMAIN refs :
        /\ HasData(state[i])
        /\ refs[i].prevHeadingRef # Null
        /\ refs[i].rotationAccumRef # refs[i].prevHeadingRef

\* C27: the accuracy average of a fresh engine (a subscription that has
\* processed nothing) starts from 0 and not from the first combined score:
\* the first accuracy it emits is at most 25, and none of its first three
\* estimates has isCalibrated = true, whatever the samples.
C27_AccuracyStartsFromZero ==
    [][\A i \in One :
          Processed(i) =>
              \A r \in 1..Len(runs[i]) :
                  runs'[i][r].emitted = runs[i][r].emitted + 1 =>
                      /\ runs[i][r].emitted = 0 =>
                            /\ ~IsNaN(state'[i].data.accuracy)
                            /\ state'[i].data.accuracy <= 25
                      /\ runs'[i][r].emitted <= 3 => ~state'[i].data.isCalibrated]_vars

\* C28: once an engine has processed a magnetometer sample with a NaN
\* component (its magnitude, NaN, is in the magnitude history), its magnitude
\* EMA, displayed accuracy and rotation accumulator are NaN and stay so: no
\* later estimate has a finite accuracy or rotationDeg or isCalibrated = true.
C28_NaNPersists ==
    \A i \in DOMAIN refs :
        HasNaN(refs[i].magHistoryRef) =>
            /\ IsNaN(refs[i].emaMagRef)
            /\ IsNaN(refs[i].displayAccRef)
            /\ IsNaN(refs[i].rotationAccumRef)
            /\ HasData(state[i]) =>
                  /\ IsNaN(state[i].data.accuracy)
                  /\ IsNaN(state[i].data.rotationDeg)
                  /\ ~state[i].data.isCalibrated

\* C29: once CompassScreen has recorded the setup as complete (setupComplete
\* = true), it never returns to the setup screen during the session, for
\* every interleaving of handleSetupComplete with the storage loads started
\* by the effect, which runs again when the system colour scheme changes.
C29_SetupStaysComplete ==
    [][screen.setupComplete = "true" =>
          /\ screen'.setupComplete = "true"
          /\ Rendered(screen') # "setup"]_vars

\* The order of the steps of a full deploy.
DeployOrder(platform) ==
    IF platform = "ios" THEN <<"build", "screenshots", "metadata", "submit">>
    ELSE <<"build", "metadata", "submit">>

\* C30: in a full deploy workflow (iOS: build, upload screenshots, upload
\* metadata, submit; Android: build, upload metadata, submit) the steps run
\* in that order and a step is started only if every earlier step succeeded:
\* after the first failed step no later step is run, in fullIOSDeploy and
\* fullAndroidDeploy as in the full-ios and full-android actions of the tool.
C30_DeployStopsAtFailure ==
    \A k \in 1..Len(deploy.calls) :
        LET c == deploy.calls[k]
        IN  /\ Len(c.started) <= Len(DeployOrder(c.platform))
            /\ \A j \in 1..Len(c.started) : c.started[j].kind = DeployOrder(c.platform)[j]
            /\ \A j \in 1..Len(c.results) : ~c.results[j] => Len(c.started) = j

=============================================================================
